---- MODULE Spec2Model ----
(***************************************************************************)
(* EvalMaster: the persistence store (services/storageService.ts), the     *)
(* dashboard (pages/Dashboard.tsx), the creation wizard                    *)
(* (pages/CreateTask.tsx), the evaluation session                          *)
(* (pages/EvaluationWorkspace.tsx, kept as src/unnamed/part_000) and the   *)
(* results page with its CSV export (pages/Results.tsx).                   *)
(*                                                                         *)
(* JavaScript values.  An object is a function from its keys to values.    *)
(* A key bound to undefined and a missing key read the same in every       *)
(* expression of the source (o.k, o?.k, !o[k], spread followed by a read)  *)
(* and JSON.stringify drops a key bound to undefined, so both are the      *)
(* absence of the key from DOMAIN.  Every other value of the model (finite *)
(* numbers, strings, arrays and objects of them) is unchanged by           *)
(* JSON.parse(JSON.stringify(v)), so the two variables tasks and           *)
(* evaluations hold the decoded content of the two localStorage keys.      *)
(* Array indices are 0-based as in the source; Sequences are 1-based, so   *)
(* records[currentIndex] is task.records[currentIndex + 1].                *)
(* tasksJson and evaluationsJson say what reading the key gives: "absent"  *)
(* (getItem returns null; the variable holds the empty collection), "ok"   *)
(* (JSON.parse returns the collection the variable holds), "syntax"        *)
(* (JSON.parse throws) or "null" (the text null: JSON.parse returns null). *)
(* A number is an integer; 0.5 is the fraction <<1, 2>>.  A string that    *)
(* the program takes apart (a title, a key of an imported object) is the   *)
(* sequence of its characters.                                             *)
(*                                                                         *)
(* React.  A handler and the render and effects that follow it are one     *)
(* step: no other handler runs between them.  The state of a component     *)
(* that is not mounted is its useState initial values.  An uncaught throw  *)
(* in render or in an effect unmounts the application (view "crashed").    *)
(*                                                                         *)
(* Inputs.  generateId() returns an id that no stored task, no other       *)
(* record of the import and no other dimension has.  Record ids are not    *)
(* names of Object.prototype members.  The members of an imported array    *)
(* are objects; an import may repeat a record id, and the wizard may write *)
(* a task without records.  Date.now() never goes back.                    *)
(***************************************************************************)
EXTENDS Integers, Sequences, FiniteSets, TLC

VARIABLES
  tasks,             \* localStorage[TASKS_KEY], decoded: the Task[] list
  evaluations,       \* localStorage[EVALUATIONS_KEY], decoded: taskId -> EvaluationMap
  now,               \* the last value read from Date.now()
  view,              \* the mounted route: "dashboard", "evaluate", "create",
                     \* "results", or "crashed"
  taskId,            \* useParams().taskId of the evaluation route
  task,              \* EvaluationWorkspace state: task (Null before the load)
  currentIndex,      \* EvaluationWorkspace state: currentIndex
  currentResult,     \* EvaluationWorkspace state: currentResult (the draft)
  savedEvaluations,  \* EvaluationWorkspace state: savedEvaluations (savedMap)
  isSaved,           \* EvaluationWorkspace state: isSaved
  tasksJson,         \* what JSON.parse does with localStorage[TASKS_KEY]
  evaluationsJson,   \* what JSON.parse does with localStorage[EVALUATIONS_KEY]
  progressData,      \* Dashboard state: progressData (task id -> completedCount)
  step,              \* CreateTask state: step
  error,             \* CreateTask state: error (Null or the message)
  title,             \* CreateTask state: title, as its characters
  mode,              \* CreateTask state: mode
  rawRecords,        \* CreateTask state: rawRecords
  availableKeys,     \* CreateTask state: availableKeys
  fieldMappings,     \* CreateTask state: fieldMappings
  dimensions,        \* CreateTask state: dimensions
  reading,           \* the files handed to a FileReader whose onload is to come
  resultsTask,       \* Results state: task (Null before the load)
  resultsEvaluations, \* Results state: evaluations (the combined rows)
  proposals,         \* the field mappings proposed so far, by keys and mode
  lastOp,            \* the last handler that ran, with its arguments
  edits              \* the number of draft edits made so far

vars == <<tasks, evaluations, now, view, taskId, task, currentIndex,
          currentResult, savedEvaluations, isSaved, tasksJson, evaluationsJson,
          progressData, step, error, title, mode, rawRecords, availableKeys,
          fieldMappings, dimensions, reading, resultsTask, resultsEvaluations,
          proposals, lastOp, edits>>

store == <<tasks, evaluations, tasksJson, evaluationsJson>>
wizard == <<step, error, title, mode, rawRecords, availableKeys, fieldMappings,
            dimensions, reading>>
session == <<taskId, task, currentIndex, currentResult, savedEvaluations, isSaved>>
results == <<resultsTask, resultsEvaluations>>

(***************************************************************************)
(* Bounds and input sets                                                   *)
(***************************************************************************)
MaxRecords == 2
MaxClock == 1
MaxEdits == 2

TaskIds == {"t1", "t2"}
RecordIds == {"r1", "r2"}
DimIds == {"d1", "d2"}
ScoreValues == {1}
Selections == {"left", "right", "tie"}
Comments == {"", "c"}

SCORING == "scoring"
COMPARISON == "comparison"

(***************************************************************************)
(* Objects                                                                 *)
(***************************************************************************)
EmptyMap == [k \in {} |-> k]
Null == [null |-> TRUE]

\* { ...o, [k]: v }
Spread(o, k, v) == [x \in DOMAIN o \cup {k} |-> IF x = k THEN v ELSE o[x]]

\* delete o[k]
Delete(o, k) == [x \in DOMAIN o \ {k} |-> o[x]]

\* Object.keys(o).length
KeyCount(o) == Cardinality(DOMAIN o)

Min(S) == CHOOSE x \in S : \A y \in S : x <= y

(***************************************************************************)
(* services/storageService.ts                                              *)
(***************************************************************************)
\* getTasks(): data ? JSON.parse(data) : [], and [] when JSON.parse throws
getTasks ==
  IF tasksJson \in {"absent", "syntax"} THEN <<>>
  ELSE IF tasksJson = "null" THEN Null
  ELSE tasks

\* getAllEvaluations(): data ? JSON.parse(data) : {}, and {} when it throws
getAllEvaluations ==
  IF evaluationsJson \in {"absent", "syntax"} THEN EmptyMap
  ELSE IF evaluationsJson = "null" THEN Null
  ELSE evaluations

\* getEvaluations(taskId): all[taskId] || {} of the decoded map all, and {}
\* when all is null (the TypeError is caught)
getEvaluations(all, id) == IF id \in DOMAIN all THEN all[id] ELSE EmptyMap

\* a saveTask that puts the new task first, as the dashboard lists it
saveTask_first(ts, t) == <<t>> \o ts

\* saveTask(task): tasks.push(task)
saveTask(ts, t) == Append(ts, t)

\* deleteTask(taskId), first half: filter(t => t.id !== taskId)
deleteTaskTasks(ts, id) == SelectSeq(ts, LAMBDA t : t.id # id)

\* a deleteTask that forgets the cleanup of the evaluations
deleteTaskEvaluations_keep(all, id) == all

\* deleteTask(taskId), second half: delete allEvaluations[taskId]
deleteTaskEvaluations(all, id) == Delete(all, id)

\* a saveEvaluation that starts the task's map afresh on every save
saveEvaluation_reset(all, id, result) ==
  Spread(all, id, Spread(EmptyMap, result.recordId, result))

\* a saveEvaluation that files the result under its task id
saveEvaluation_bytask(all, id, result) ==
  LET base == IF id \in DOMAIN all THEN all ELSE Spread(all, id, EmptyMap)
  IN  Spread(base, id, Spread(base[id], result.taskId, result))

\* saveEvaluation(taskId, result): all[taskId][result.recordId] = result
saveEvaluation(all, id, result) ==
  LET base == IF id \in DOMAIN all THEN all ELSE Spread(all, id, EmptyMap)
  IN  Spread(base, id, Spread(base[id], result.recordId, result))

(***************************************************************************)
(* Tasks as the creation wizard writes them (pages/CreateTask.tsx): only   *)
(* the fields the store and the session read.                              *)
(***************************************************************************)
Dimensions == <<[id |-> "d1"], [id |-> "d2"]>>

\* the id lists of an import, up to a renaming of the ids: "r2" only after "r1"
RecordLists ==
  {ids \in UNION {[1..n -> RecordIds] : n \in 0..MaxRecords} :
     \A i \in 1..Len(ids) : ids[i] = "r2" => \E j \in 1..(i - 1) : ids[j] = "r1"}

\* the mode of the task created under each id
ModeOf(id) == IF id = "t1" THEN SCORING ELSE COMPARISON

NewTask(id, taskMode, ids) ==
  LET records == [i \in 1..Len(ids) |-> [id |-> ids[i]]]
  IN  IF taskMode = SCORING
      THEN [id |-> id, mode |-> taskMode, dimensions |-> Dimensions,
            records |-> records]
      ELSE [id |-> id, mode |-> taskMode, records |-> records]

StoredIds == {tasks[i].id : i \in 1..Len(tasks)}

(***************************************************************************)
(* pages/Dashboard.tsx: the progress of the listed tasks                   *)
(***************************************************************************)
\* Math.round(num / den * 100) for integers num >= 0 and den > 0: the floor
\* of the quotient plus one half (the double is exact enough for the record
\* counts of the model)
Round100(num, den) == (200 * num + den) \div (2 * den)

\* loadData(): progressMap[task.id] = Object.keys(getEvaluations(task.id)).length
loadData(ts, all) ==
  [id \in {ts[i].id : i \in 1..Len(ts)} |-> KeyCount(getEvaluations(all, id))]

\* a card that shows the share of the records still to be evaluated
percent_pending(t, data) ==
  LET completed == IF t.id \in DOMAIN data THEN data[t.id] ELSE 0
      total == Len(t.records)
  IN  IF total > 0 THEN Round100(total - completed, total) ELSE 0

\* the percent of a task's card: progressData[task.id] || 0 over records.length
percent(t, data) ==
  LET completed == IF t.id \in DOMAIN data THEN data[t.id] ELSE 0
      total == Len(t.records)
  IN  IF total > 0 THEN Round100(completed, total) ELSE 0

\* the mount of the dashboard over the store the step leaves: its effect runs
\* loadData, which throws at loadedTasks.sort when getTasks() is no array
mountDashboard ==
  IF tasksJson' = "null"
  THEN /\ view' = "crashed"
       /\ progressData' = EmptyMap
  ELSE /\ view' = "dashboard"
       /\ progressData' = loadData(getTasks', getAllEvaluations')

(***************************************************************************)
(* pages/EvaluationWorkspace.tsx                                           *)
(***************************************************************************)
\* the useState initial values: the state of a workspace that is not mounted
Unmounted ==
  /\ taskId' = "none"
  /\ task' = Null
  /\ currentIndex' = 0
  /\ currentResult' = Null
  /\ savedEvaluations' = EmptyMap
  /\ isSaved' = TRUE

\* getTasks().find(t => t.id === taskId)
find(ts, id) ==
  LET I == {i \in 1..Len(ts) : ts[i].id = id}
  IN  IF I = {} THEN Null ELSE ts[Min(I)]

\* loadedTask.records.findIndex(r => !evals[r.id])
firstUnevaluated(records, evals) ==
  LET I == {i \in 1..Len(records) : records[i].id \notin DOMAIN evals}
  IN  IF I = {} THEN -1 ELSE Min(I) - 1

\* the index the load effect leaves: setCurrentIndex only when one is found
loadedIndex(records, evals, index) ==
  LET first == firstUnevaluated(records, evals)
  IN  IF first # -1 THEN first ELSE index

\* a header that shows the share of the records still to be evaluated
progress_pending(saved, records) ==
  Round100(Len(records) - KeyCount(saved), Len(records))

\* the progress of the header:
\* Math.round(Object.keys(savedEvaluations).length / task.records.length * 100).
\* It is computed past the Loading return, with a draft, and the draft effect
\* sets one only for a task that has records; 0 / 0 would be NaN.
progress(saved, records) == Round100(KeyCount(saved), Len(records))

\* a fresh result that carries empty scores whatever the mode
freshResult_scores(t, recordId, updatedAt) ==
  [taskId |-> t.id, recordId |-> recordId, scores |-> EmptyMap,
   comment |-> "", updatedAt |-> updatedAt]

\* the fresh result of the draft-loading effect
freshResult(t, recordId, updatedAt) ==
  IF t.mode = SCORING
  THEN [taskId |-> t.id, recordId |-> recordId, scores |-> EmptyMap,
        comment |-> "", updatedAt |-> updatedAt]
  ELSE [taskId |-> t.id, recordId |-> recordId,
        comment |-> "", updatedAt |-> updatedAt]

\* the draft-loading effect, run after the state updates of a handler are
\* committed as (t, index, saved) and Date.now() last returned clock.  It
\* throws (record is undefined) when index is past the end of the records,
\* and an uncaught throw unmounts the application.
draftEffect(t, index, saved, clock) ==
  /\ task' = t
  /\ currentIndex' = index
  /\ savedEvaluations' = saved
  /\ IF index >= Len(t.records)
     THEN /\ view' = "crashed"
          /\ now' = clock
          /\ UNCHANGED <<currentResult, isSaved>>
     ELSE LET record == t.records[index + 1]
          IN  /\ view' = "evaluate"
              /\ isSaved' = TRUE
              /\ IF record.id \in DOMAIN saved
                 THEN /\ currentResult' = saved[record.id]
                      /\ now' = clock
                 ELSE \E u \in clock..MaxClock :
                        /\ now' = u
                        /\ currentResult' = freshResult(t, record.id, u)

\* the load effect, on mount and on a change of the route's taskId; it throws
\* at getTasks().find when getTasks() is no array
loadEffect(id) ==
  /\ view \in {"dashboard", "evaluate"}
  /\ id # taskId
  /\ UNCHANGED <<store, edits, wizard, results, proposals>>
  /\ IF tasksJson = "null"
     THEN /\ lastOp' = [op |-> "TypeError", from |-> "loadEffect"]
          /\ view' = "crashed"
          /\ taskId' = id
          /\ progressData' = EmptyMap
          /\ UNCHANGED <<now, task, currentIndex, currentResult,
                         savedEvaluations, isSaved>>
     ELSE /\ lastOp' = [op |-> "loadEffect", id |-> id]
          /\ LET loadedTask == find(getTasks, id)
                 evals == getEvaluations(getAllEvaluations, id)
             IN  IF loadedTask # Null
                 THEN /\ taskId' = id
                      /\ progressData' = EmptyMap
                      /\ draftEffect(loadedTask,
                                     loadedIndex(loadedTask.records, evals,
                                                 currentIndex),
                                     evals, now)
                 ELSE /\ mountDashboard
                      /\ now' = now
                      /\ Unmounted

\* saveEvaluation(taskId, result) throws at all[taskId] when getAllEvaluations()
\* is null: the handler op stops there, after its Date.now()
saveEvaluationThrows(op) ==
  /\ lastOp' = [op |-> "TypeError", from |-> op]
  /\ \E clock \in now..MaxClock : now' = clock
  /\ UNCHANGED <<store, view, session>>

\* a handleSave that writes the draft with the timestamp it already has
stamped_stale(result, clock) == result

\* the result handleSave writes to the store
stamped(result, clock) == Spread(result, "updatedAt", clock)

\* a handleSave that files the draft under its task id
merged_bytask(saved, result) == Spread(saved, result.taskId, result)

\* the map handleSave leaves in savedEvaluations
merged(saved, result) == Spread(saved, result.recordId, result)

handleSave ==
  /\ view = "evaluate"
  /\ UNCHANGED <<edits, wizard, progressData, results, proposals>>
  /\ IF evaluationsJson = "null"
     THEN saveEvaluationThrows("handleSave")
     ELSE /\ lastOp' = [op |-> "handleSave", again |-> lastOp.op = "handleSave"]
          /\ \E clock \in now..MaxClock :
               /\ evaluations' = saveEvaluation(getAllEvaluations, task.id,
                                                stamped(currentResult, clock))
               /\ draftEffect(task, currentIndex,
                              merged(savedEvaluations, currentResult), clock)
          /\ evaluationsJson' = "ok"
          /\ UNCHANGED <<tasks, tasksJson, taskId>>

\* a handleNext that wraps around at the last record
nextIndex_wrap(t, index) == IF index < Len(t.records) - 1 THEN index + 1 ELSE 0

\* the index handleNext leaves
nextIndex(t, index) == IF index < Len(t.records) - 1 THEN index + 1 ELSE index

\* the index handlePrev leaves
prevIndex(index) == IF index > 0 THEN index - 1 ELSE index

\* a handleNext that moves without saving the draft
handleNext_nosave ==
  /\ view = "evaluate"
  /\ lastOp' = [op |-> "handleNext", from |-> currentIndex]
  /\ draftEffect(task, nextIndex(task, currentIndex), savedEvaluations, now)
  /\ UNCHANGED <<store, taskId, edits, wizard, progressData, results,
                 proposals>>

handleNext ==
  /\ view = "evaluate"
  /\ UNCHANGED <<edits, wizard, progressData, results, proposals>>
  /\ IF evaluationsJson = "null"
     THEN saveEvaluationThrows("handleNext")
     ELSE /\ lastOp' = [op |-> "handleNext", from |-> currentIndex]
          /\ \E clock \in now..MaxClock :
               /\ evaluations' = saveEvaluation(getAllEvaluations, task.id,
                                                stamped(currentResult, clock))
               /\ draftEffect(task, nextIndex(task, currentIndex),
                              merged(savedEvaluations, currentResult), clock)
          /\ evaluationsJson' = "ok"
          /\ UNCHANGED <<tasks, tasksJson, taskId>>

handlePrev ==
  /\ view = "evaluate"
  /\ UNCHANGED <<edits, wizard, progressData, results, proposals>>
  /\ IF evaluationsJson = "null"
     THEN saveEvaluationThrows("handlePrev")
     ELSE /\ lastOp' = [op |-> "handlePrev", from |-> currentIndex]
          /\ \E clock \in now..MaxClock :
               /\ evaluations' = saveEvaluation(getAllEvaluations, task.id,
                                                stamped(currentResult, clock))
               /\ draftEffect(task, prevIndex(currentIndex),
                              merged(savedEvaluations, currentResult), clock)
          /\ evaluationsJson' = "ok"
          /\ UNCHANGED <<tasks, tasksJson, taskId>>

\* an updateScore that forgets the spread of the other scores
withScore_alone(result, dimId, value) ==
  Spread(result, "scores", Spread(EmptyMap, dimId, value))

\* { ...currentResult, scores: { ...currentResult.scores, [dimId]: value } }
withScore(result, dimId, value) ==
  LET scores == IF "scores" \in DOMAIN result THEN result.scores ELSE EmptyMap
  IN  Spread(result, "scores", Spread(scores, dimId, value))

\* the sliders are rendered for a Scoring task, one per dimension
updateScore(dimId, value) ==
  /\ view = "evaluate"
  /\ edits < MaxEdits
  /\ edits' = edits + 1
  /\ task.mode = SCORING
  /\ dimId \in {task.dimensions[i].id : i \in 1..Len(task.dimensions)}
  /\ currentResult' = withScore(currentResult, dimId, value)
  /\ isSaved' = FALSE
  /\ lastOp' = [op |-> "updateScore", dimId |-> dimId]
  /\ UNCHANGED <<store, now, view, taskId, task, currentIndex, savedEvaluations,
                 wizard, progressData, results, proposals>>

\* the radio buttons are rendered for a Comparison task
updateComparison(selection) ==
  /\ view = "evaluate"
  /\ edits < MaxEdits
  /\ edits' = edits + 1
  /\ task.mode = COMPARISON
  /\ currentResult' = Spread(currentResult, "comparisonSelection", selection)
  /\ isSaved' = FALSE
  /\ lastOp' = [op |-> "updateComparison"]
  /\ UNCHANGED <<store, now, view, taskId, task, currentIndex, savedEvaluations,
                 wizard, progressData, results, proposals>>

\* an updateComment that leaves the saved mark as it is
updateComment_quiet(text) ==
  /\ view = "evaluate"
  /\ edits < MaxEdits
  /\ edits' = edits + 1
  /\ currentResult' = Spread(currentResult, "comment", text)
  /\ lastOp' = [op |-> "updateComment"]
  /\ UNCHANGED <<store, now, view, taskId, task, currentIndex, savedEvaluations,
                 isSaved, wizard, progressData, results, proposals>>

updateComment(text) ==
  /\ view = "evaluate"
  /\ edits < MaxEdits
  /\ edits' = edits + 1
  /\ currentResult' = Spread(currentResult, "comment", text)
  /\ isSaved' = FALSE
  /\ lastOp' = [op |-> "updateComment"]
  /\ UNCHANGED <<store, now, view, taskId, task, currentIndex, savedEvaluations,
                 wizard, progressData, results, proposals>>

\* <Link to="/"> of the workspace header; from a crashed page, a reload at "/"
goDashboard ==
  /\ view \in {"evaluate", "crashed"}
  /\ UNCHANGED <<store, now, edits, wizard, results, proposals>>
  /\ mountDashboard
  /\ Unmounted
  /\ lastOp' = [op |-> "goDashboard"]

(***************************************************************************)
(* pages/CreateTask.tsx: strings, imported JSON and field mappings         *)
(***************************************************************************)
Lower == <<"a", "b", "c", "d", "e", "f", "g", "h", "i", "j", "k", "l", "m">>
           \o <<"n", "o", "p", "q", "r", "s", "t", "u", "v", "w", "x", "y", "z">>
Upper == <<"A", "B", "C", "D", "E", "F", "G", "H", "I", "J", "K", "L", "M">>
           \o <<"N", "O", "P", "Q", "R", "S", "T", "U", "V", "W", "X", "Y", "Z">>

Max(S) == CHOOSE x \in S : \A y \in S : x >= y

\* the index of the character c in the alphabet cs, 0 when it is not there
IndexIn(cs, c) ==
  LET I == {j \in 1..Len(cs) : cs[j] = c} IN IF I = {} THEN 0 ELSE Min(I)

\* str.toLowerCase()
toLowerCase(str) ==
  [i \in 1..Len(str) |->
     IF IndexIn(Upper, str[i]) # 0 THEN Lower[IndexIn(Upper, str[i])] ELSE str[i]]

\* str.toUpperCase()
toUpperCase(str) ==
  [i \in 1..Len(str) |->
     IF IndexIn(Lower, str[i]) # 0 THEN Upper[IndexIn(Lower, str[i])] ELSE str[i]]

\* str.includes(sub)
includes(str, sub) ==
  \E i \in 0..(Len(str) - Len(sub)) : SubSeq(str, i + 1, i + Len(sub)) = sub

\* str.endsWith(suffix)
endsWith(str, suffix) ==
  /\ Len(str) >= Len(suffix)
  /\ SubSeq(str, Len(str) - Len(suffix) + 1, Len(str)) = suffix

\* the white space of the model's strings
Whitespace == {" "}

\* a trim that returns its string as it is
trim_none(str) == str

\* str.trim()
trim(str) ==
  LET I == {i \in 1..Len(str) : str[i] \notin Whitespace}
  IN  IF I = {} THEN <<>> ELSE SubSeq(str, Min(I), Max(I))

\* a JSON number and a JSON string
Num(n) == [number |-> n]
Str(v) == [string |-> v]

Digits == <<"0", "1", "2", "3", "4", "5", "6", "7", "8", "9">>

\* String(v) of a one-digit number, of a boolean or of a string
String(v) ==
  IF "number" \in DOMAIN v THEN Digits[v.number + 1]
  ELSE IF "boolean" \in DOMAIN v THEN (IF v.boolean THEN "true" ELSE "false")
  ELSE v.string

\* An imported object is the sequence of its <<key, value>> members, in the
\* order of the file.
K_id == <<"i", "d">>
K_prompt == <<"p", "r", "o", "m", "p", "t">>
K_response == <<"r", "e", "s", "p", "o", "n", "s", "e">>
K_model_a == <<"m", "o", "d", "e", "l", "_", "a">>
K_model_b == <<"m", "o", "d", "e", "l", "_", "b">>

\* Object.keys(o)
ObjectKeys(o) == [i \in 1..Len(o) |-> o[i][1]]

\* o[key] != null
HasMember(o, key) == \E i \in 1..Len(o) : o[i][1] = key

\* o[key], for a key that o has
Member(o, key) == o[Max({i \in 1..Len(o) : o[i][1] = key})][2]

\* generateId() for the i-th record of an import: an id that no other record
\* of the import has
GeneratedIds == <<"g1", "g2", "g3">>

\* records = json.map(item => ({ id: item.id != null ? String(item.id)
\*                                                   : generateId(), data: item }))
normalized(json) ==
  [i \in 1..Len(json) |->
     [id |-> IF HasMember(json[i], K_id) THEN String(Member(json[i], K_id))
                                         ELSE GeneratedIds[i],
      data |-> json[i]]]

ContextWords == {<<"i", "n", "p", "u", "t">>,
                 <<"p", "r", "o", "m", "p", "t">>,
                 <<"q", "u", "e", "r", "y">>,
                 <<"q", "u", "e", "s", "t", "i", "o", "n">>,
                 <<"c", "o", "n", "t", "e", "x", "t">>}
TargetWords == {<<"t", "a", "r", "g", "e", "t">>,
                <<"r", "e", "s", "p", "o", "n", "s", "e">>,
                <<"o", "u", "t", "p", "u", "t">>,
                <<"a", "n", "s", "w", "e", "r">>}

\* a proposal that looks at the _a and _b endings before the context words
autoRole_suffix(key, m) ==
  LET k == toLowerCase(key)
  IN  IF m = COMPARISON
         /\ (k = <<"m", "o", "d", "e", "l", "a">>
             \/ k = <<"o", "u", "t", "p", "u", "t", "a">>
             \/ endsWith(k, <<"_", "a">>))
      THEN "modelA"
      ELSE IF m = COMPARISON
              /\ (k = <<"m", "o", "d", "e", "l", "b">>
                  \/ k = <<"o", "u", "t", "p", "u", "t", "b">>
                  \/ endsWith(k, <<"_", "b">>))
           THEN "modelB"
      ELSE IF \E w \in ContextWords : includes(k, w) THEN "context"
      ELSE IF m = SCORING /\ \E w \in TargetWords : includes(k, w) THEN "target"
      ELSE "ignore"

\* the role that handleFileUpload gives to a key while the wizard's mode is m
autoRole(key, m) ==
  LET k == toLowerCase(key)
  IN  IF \E w \in ContextWords : includes(k, w) THEN "context"
      ELSE IF m = SCORING /\ \E w \in TargetWords : includes(k, w) THEN "target"
      ELSE IF m = COMPARISON
              /\ (k = <<"m", "o", "d", "e", "l", "a">> \/ k = <<"o", "u", "t", "p", "u", "t", "a">>
                  \/ endsWith(k, <<"_", "a">>))
           THEN "modelA"
      ELSE IF m = COMPARISON
              /\ (k = <<"m", "o", "d", "e", "l", "b">> \/ k = <<"o", "u", "t", "p", "u", "t", "b">>
                  \/ endsWith(k, <<"_", "b">>))
           THEN "modelB"
      ELSE "ignore"

\* key.charAt(0).toUpperCase() + key.slice(1).replace(/_/g, ' ')
labelOf(key) ==
  toUpperCase(SubSeq(key, 1, 1))
    \o [i \in 1..(Len(key) - 1) |-> IF key[i + 1] = "_" THEN " " ELSE key[i + 1]]

\* initialMappings of the keys of the first record
initialMappings(keys, m) ==
  [i \in 1..Len(keys) |->
     [key |-> keys[i], role |-> autoRole(keys[i], m), label |-> labelOf(keys[i])]]

\* What JSON.parse does with the text of a file: it throws, or it returns an
\* object that is no array, or it returns the array json.
Invalid == [parse |-> "SyntaxError"]
NotArray == [parse |-> "object"]
ArrayOf(json) == [parse |-> "array", json |-> json]

ItemA ==
  <<<<K_id, Num(1)>>, <<K_prompt, Str("p")>>, <<K_response, Str("x")>>>>
ItemB ==
  <<<<K_id, Str("1")>>, <<K_prompt, Str("q")>>, <<K_model_a, Str("x")>>,
    <<K_model_b, Str("y")>>>>
ItemC ==
  <<<<K_prompt, Str("p")>>, <<K_model_a, Str("x")>>, <<K_model_b, Str("y")>>>>

Files ==
  {Invalid, NotArray, ArrayOf(<<>>), ArrayOf(<<ItemA, ItemB>>),
   ArrayOf(<<ItemC, ItemB>>)}

\* the texts typed into the title input; the title starts empty
Titles == {<<" ">>, <<" ", "T">>}
MaxScores == {0, 3}

(***************************************************************************)
(* pages/Dashboard.tsx and pages/CreateTask.tsx                            *)
(***************************************************************************)
\* handleDelete(id), confirmed: the trash button of a listed task.  deleteTask
\* writes the filtered tasks first; delete allEvaluations[taskId] throws when
\* getAllEvaluations() is null, and then loadData() is not reached.
handleDelete(id) ==
  /\ view = "dashboard"
  /\ id \in StoredIds
  /\ tasks' = deleteTaskTasks(getTasks, id)
  /\ tasksJson' = "ok"
  /\ UNCHANGED <<now, view, session, edits, wizard, results, proposals>>
  /\ IF evaluationsJson = "null"
     THEN /\ lastOp' = [op |-> "TypeError", from |-> "handleDelete"]
          /\ UNCHANGED <<evaluations, evaluationsJson, progressData>>
     ELSE /\ evaluations' = deleteTaskEvaluations(getAllEvaluations, id)
          /\ evaluationsJson' = "ok"
          /\ progressData' = loadData(tasks', evaluations')
          /\ lastOp' = [op |-> "handleDelete", id |-> id,
                        removed |-> KeyCount(getEvaluations(evaluations, id))]

\* handleCreateTask, past its validation, and the dashboard that navigate('/')
\* mounts again: generateId() returns an id that no stored task has; taskMode
\* and ids stand for the wizard's mode and rawRecords
handleCreateTask(id, taskMode, ids) ==
  /\ view = "dashboard"
  /\ id \notin StoredIds
  /\ tasks' = saveTask(getTasks, NewTask(id, taskMode, ids))
  /\ tasksJson' = "ok"
  /\ progressData' = loadData(tasks', getAllEvaluations)
  /\ lastOp' = [op |-> "handleCreateTask", id |-> id]
  /\ UNCHANGED <<evaluations, evaluationsJson, now, view, session, edits,
                 wizard, results, proposals>>

\* what a key of localStorage can hold that is not the stored collection
Unreadable == {"absent", "syntax", "null"}

\* localStorage[TASKS_KEY] is written by something else than the application
\* (another tab, the tools of the browser, a cut write): the key is gone, or
\* its text is no JSON, or it is the JSON text null
tasksOverwritten(kind) ==
  /\ tasksJson = "ok"
  /\ tasksJson' = kind
  /\ tasks' = <<>>
  /\ lastOp' = [op |-> "tasksOverwritten"]
  /\ UNCHANGED <<evaluations, evaluationsJson, now, view, session, edits, wizard,
                 progressData, results, proposals>>

\* the same for localStorage[EVALUATIONS_KEY]
evaluationsOverwritten(kind) ==
  /\ evaluationsJson = "ok"
  /\ evaluationsJson' = kind
  /\ evaluations' = EmptyMap
  /\ lastOp' = [op |-> "evaluationsOverwritten"]
  /\ UNCHANGED <<tasks, tasksJson, now, view, session, edits, wizard,
                 progressData, results, proposals>>

(***************************************************************************)
(* pages/CreateTask.tsx: the wizard.  Of a Task, the fields that the       *)
(* validation, the store and the session read: description and createdAt   *)
(* are left out, and so are the name and the description of a Dimension    *)
(* and the edit of a mapping's label.                                      *)
(***************************************************************************)
MaxTasks == 1

TitleRequired == [message |-> "Task title is required"]
MappingRequired ==
  [message |-> "For comparison mode, you must map at least 'Model A' and 'Model B' fields."]
UploadRequired == [message |-> "Please upload a file to continue."]
InvalidFile ==
  [message |-> "Invalid JSON file. Please ensure it is a valid JSON array."]

\* the state of a wizard that is not mounted: the useState initial values; an
\* onload that comes later sets the state of no mounted component
WizardUnmounted ==
  /\ step' = 1
  /\ error' = Null
  /\ title' = <<>>
  /\ mode' = SCORING
  /\ rawRecords' = <<>>
  /\ availableKeys' = <<>>
  /\ fieldMappings' = <<>>
  /\ dimensions' = <<[id |-> "d1", min |-> 0, max |-> 5, step |-> <<1, 2>>]>>
  /\ reading' = {}

\* <Link to="/create"> of the dashboard
openCreate ==
  /\ view = "dashboard"
  /\ Len(tasks) < MaxTasks
  /\ view' = "create"
  /\ progressData' = EmptyMap
  /\ lastOp' = [op |-> "openCreate"]
  /\ UNCHANGED <<store, now, session, edits, wizard, results, proposals>>

\* <Link to="/">: the Cancel button of step 1
cancel ==
  /\ view = "create"
  /\ step = 1
  /\ UNCHANGED <<store, now, session, edits, results, proposals>>
  /\ mountDashboard
  /\ WizardUnmounted
  /\ lastOp' = [op |-> "cancel"]

\* onChange of the title input of step 1
setTitle(text) ==
  /\ view = "create"
  /\ step = 1
  /\ title' = text
  /\ lastOp' = [op |-> "setTitle"]
  /\ UNCHANGED <<store, now, view, session, edits, progressData, step, error, mode,
                 rawRecords, availableKeys, fieldMappings, dimensions,
                 reading, results, proposals>>

\* onClick of the two mode cards of step 1
setMode(m) ==
  /\ view = "create"
  /\ step = 1
  /\ mode' = m
  /\ lastOp' = [op |-> "setMode"]
  /\ UNCHANGED <<store, now, view, session, edits, progressData, step, error, title,
                 rawRecords, availableKeys, fieldMappings, dimensions,
                 reading, results, proposals>>

\* the Back button
back ==
  /\ view = "create"
  /\ step > 1
  /\ step' = step - 1
  /\ lastOp' = [op |-> "back"]
  /\ UNCHANGED <<store, now, view, session, edits, progressData, error, title, mode,
                 rawRecords, availableKeys, fieldMappings, dimensions,
                 reading, results, proposals>>

\* the Next button
next ==
  /\ view = "create"
  /\ step < 3
  /\ IF step = 2 /\ Len(rawRecords) = 0
     THEN /\ error' = UploadRequired
          /\ UNCHANGED step
     ELSE /\ error' = Null
          /\ step' = step + 1
  /\ lastOp' = [op |-> "next"]
  /\ UNCHANGED <<store, now, view, session, edits, progressData, title, mode,
                 rawRecords, availableKeys, fieldMappings, dimensions,
                 reading, results, proposals>>

\* handleFileUpload(e) with a file chosen: reader.readAsText(file); the onload
\* it sets closes over the mode of this render
handleFileUpload(file) ==
  /\ view = "create"
  /\ step = 2
  /\ edits < MaxEdits
  /\ edits' = edits + 1
  /\ reading' = reading \cup {[file |-> file, mode |-> mode]}
  /\ lastOp' = [op |-> "handleFileUpload"]
  /\ UNCHANGED <<store, now, view, session, progressData, step, error, title, mode,
                 rawRecords, availableKeys, fieldMappings, dimensions,
                 results, proposals>>

\* what an import proposed: the keys of its first record, the mode its onload
\* closed over and the mappings it set, with the mappings it found
proposal(keys, m, before, mappings) ==
  [keys |-> keys, mode |-> m, before |-> before, mappings |-> mappings]

\* an onload that drops the records of the last import when the file is bad
onload_clear(read) ==
  /\ view = "create"
  /\ read \in reading
  /\ reading' = reading \ {read}
  /\ lastOp' = [op |-> "onload", read |-> read]
  /\ IF read.file.parse = "array"
     THEN LET records == normalized(read.file.json)
              keys == ObjectKeys(records[1].data)
          IN  /\ rawRecords' = records
              /\ IF Len(records) > 0
                 THEN /\ availableKeys' = keys
                      /\ fieldMappings' = initialMappings(keys, read.mode)
                      /\ proposals' =
                           proposals \cup {proposal(keys, read.mode, fieldMappings,
                                                    fieldMappings')}
                 ELSE UNCHANGED <<availableKeys, fieldMappings, proposals>>
              /\ error' = Null
     ELSE /\ error' = InvalidFile
          /\ rawRecords' = <<>>
          /\ UNCHANGED <<availableKeys, fieldMappings, proposals>>
  /\ UNCHANGED <<store, now, view, session, edits, progressData, step, title, mode,
                 dimensions, results>>

\* an onload that keeps the role of a key that is mapped already
onload_keep(read) ==
  /\ view = "create"
  /\ read \in reading
  /\ reading' = reading \ {read}
  /\ lastOp' = [op |-> "onload", read |-> read]
  /\ IF read.file.parse = "array"
     THEN LET records == normalized(read.file.json)
              keys == ObjectKeys(records[1].data)
              fresh == initialMappings(keys, read.mode)
          IN  /\ rawRecords' = records
              /\ IF Len(records) > 0
                 THEN /\ availableKeys' = keys
                      /\ fieldMappings' =
                           [i \in 1..Len(keys) |->
                              IF i <= Len(fieldMappings)
                                 /\ fieldMappings[i].key = keys[i]
                              THEN fieldMappings[i] ELSE fresh[i]]
                      /\ proposals' =
                           proposals \cup {proposal(keys, read.mode, fieldMappings,
                                                    fieldMappings')}
                 ELSE UNCHANGED <<availableKeys, fieldMappings, proposals>>
              /\ error' = Null
     ELSE /\ error' = InvalidFile
          /\ UNCHANGED <<rawRecords, availableKeys, fieldMappings, proposals>>
  /\ UNCHANGED <<store, now, view, session, edits, progressData, step, title, mode,
                 dimensions, results>>

\* reader.onload of a file that was read: JSON.parse, Array.isArray and the
\* normalization run before the first set of the state, and the catch sets
\* the error alone
onload(read) ==
  /\ view = "create"
  /\ read \in reading
  /\ reading' = reading \ {read}
  /\ lastOp' = [op |-> "onload", read |-> read]
  /\ IF read.file.parse = "array"
     THEN LET records == normalized(read.file.json)
              keys == ObjectKeys(records[1].data)
          IN  /\ rawRecords' = records
              /\ IF Len(records) > 0
                 THEN /\ availableKeys' = keys
                      /\ fieldMappings' = initialMappings(keys, read.mode)
                      /\ proposals' =
                           proposals \cup {proposal(keys, read.mode, fieldMappings,
                                                    fieldMappings')}
                 ELSE UNCHANGED <<availableKeys, fieldMappings, proposals>>
              /\ error' = Null
     ELSE /\ error' = InvalidFile
          /\ UNCHANGED <<rawRecords, availableKeys, fieldMappings, proposals>>
  /\ UNCHANGED <<store, now, view, session, edits, progressData, step, title, mode,
                 dimensions, results>>

\* the roles the select of a mapping offers
RoleOptions(m) ==
  {"ignore", "context"}
    \cup (IF m = SCORING THEN {"target"} ELSE {"modelA", "modelB"})

\* updateMapping(key, role), from the select of a mapping's row at step 3
updateMapping(key, role) ==
  /\ view = "create"
  /\ step = 3
  /\ edits < MaxEdits
  /\ edits' = edits + 1
  /\ \E i \in 1..Len(fieldMappings) : fieldMappings[i].key = key
  /\ role \in RoleOptions(mode)
  /\ fieldMappings' =
       [i \in 1..Len(fieldMappings) |->
          IF fieldMappings[i].key = key
          THEN Spread(fieldMappings[i], "role", role)
          ELSE fieldMappings[i]]
  /\ lastOp' = [op |-> "updateMapping"]
  /\ UNCHANGED <<store, now, view, session, progressData, step, error, title, mode,
                 rawRecords, availableKeys, dimensions, reading, results,
                 proposals>>

\* the ids of DimIds that no dimension of dims has
freshDimensionIds(dims) == DimIds \ {dims[j].id : j \in 1..Len(dims)}

\* addDimension(), from the button of step 3 of a Scoring wizard; generateId()
\* returns an id that no dimension has
addDimension ==
  /\ view = "create"
  /\ step = 3
  /\ mode = SCORING
  /\ edits < MaxEdits
  /\ edits' = edits + 1
  /\ \E id \in freshDimensionIds(dimensions) :
       dimensions' = Append(dimensions, [id |-> id, min |-> 0, max |-> 5,
                                         step |-> <<1, 2>>])
  /\ lastOp' = [op |-> "addDimension"]
  /\ UNCHANGED <<store, now, view, session, progressData, step, error, title, mode,
                 rawRecords, availableKeys, fieldMappings, reading, results,
                 proposals>>

\* a removal that does not look at the length of the list
removeDimension_last(id) ==
  /\ view = "create"
  /\ step = 3
  /\ mode = SCORING
  /\ edits < MaxEdits
  /\ edits' = edits + 1
  /\ \E i \in 1..Len(dimensions) : dimensions[i].id = id
  /\ dimensions' = SelectSeq(dimensions, LAMBDA d : d.id # id)
  /\ lastOp' = [op |-> "removeDimension"]
  /\ UNCHANGED <<store, now, view, session, progressData, step, error, title, mode,
                 rawRecords, availableKeys, fieldMappings, reading, results,
                 proposals>>

\* removeDimension(id): nothing when it is the only dimension
removeDimension(id) ==
  /\ view = "create"
  /\ step = 3
  /\ mode = SCORING
  /\ edits < MaxEdits
  /\ edits' = edits + 1
  /\ \E i \in 1..Len(dimensions) : dimensions[i].id = id
  /\ dimensions' = IF Len(dimensions) > 1
                   THEN SelectSeq(dimensions, LAMBDA d : d.id # id)
                   ELSE dimensions
  /\ lastOp' = [op |-> "removeDimension"]
  /\ UNCHANGED <<store, now, view, session, progressData, step, error, title, mode,
                 rawRecords, availableKeys, fieldMappings, reading, results,
                 proposals>>

\* updateDimension(id, field, value); the page calls it with 'max' and
\* parseFloat of the Max Score input
updateDimension(id, field, value) ==
  /\ view = "create"
  /\ step = 3
  /\ mode = SCORING
  /\ edits < MaxEdits
  /\ edits' = edits + 1
  /\ \E i \in 1..Len(dimensions) : dimensions[i].id = id
  /\ dimensions' =
       [i \in 1..Len(dimensions) |->
          IF dimensions[i].id = id
          THEN Spread(dimensions[i], field, value)
          ELSE dimensions[i]]
  /\ lastOp' = [op |-> "updateDimension"]
  /\ UNCHANGED <<store, now, view, session, progressData, step, error, title, mode,
                 rawRecords, availableKeys, fieldMappings, reading, results,
                 proposals>>

\* a validation that looks at the mappings before the title
validationError_mappings(text, m, mappings) ==
  IF m = COMPARISON
     /\ ~ (/\ \E i \in 1..Len(mappings) : mappings[i].role = "modelA"
           /\ \E i \in 1..Len(mappings) : mappings[i].role = "modelB")
  THEN MappingRequired
  ELSE IF trim(text) = <<>> THEN TitleRequired
  ELSE Null

\* a validation that asks a Scoring task for a target field
validationError_target(text, m, mappings) ==
  IF trim(text) = <<>> THEN TitleRequired
  ELSE IF m = COMPARISON
          /\ ~ (/\ \E i \in 1..Len(mappings) : mappings[i].role = "modelA"
                /\ \E i \in 1..Len(mappings) : mappings[i].role = "modelB")
       THEN MappingRequired
  ELSE IF m = SCORING /\ ~ \E i \in 1..Len(mappings) : mappings[i].role = "target"
       THEN [message |-> "For scoring mode, you must map a 'Target' field."]
  ELSE Null

\* the message of the first validation rule that the wizard's state breaks,
\* Null when it breaks none
validationError(text, m, mappings) ==
  IF trim(text) = <<>> THEN TitleRequired
  ELSE IF m = COMPARISON
          /\ ~ (/\ \E i \in 1..Len(mappings) : mappings[i].role = "modelA"
                /\ \E i \in 1..Len(mappings) : mappings[i].role = "modelB")
       THEN MappingRequired
  ELSE Null

\* a newTask that stores the dimension list of the wizard in either mode
newTask_dims(id, text, m, mappings, dims, records) ==
  [id |-> id, title |-> text, mode |-> m,
   fields |-> SelectSeq(mappings, LAMBDA f : f.role # "ignore"),
   dimensions |-> dims, records |-> records]

\* a newTask that stores every mapping of the wizard
newTask_all(id, text, m, mappings, dims, records) ==
  IF m = SCORING
  THEN [id |-> id, title |-> text, mode |-> m, fields |-> mappings,
        dimensions |-> dims, records |-> records]
  ELSE [id |-> id, title |-> text, mode |-> m, fields |-> mappings,
        records |-> records]

\* the newTask of handleCreateTask
newTask(id, text, m, mappings, dims, records) ==
  LET fields == SelectSeq(mappings, LAMBDA f : f.role # "ignore")
  IN  IF m = SCORING
      THEN [id |-> id, title |-> text, mode |-> m, fields |-> fields,
            dimensions |-> dims, records |-> records]
      ELSE [id |-> id, title |-> text, mode |-> m, fields |-> fields,
            records |-> records]

\* the Create Task button of step 3: handleCreateTask() over the state of the
\* wizard; generateId() returns the id, which no stored task has
createTask(id) ==
  /\ view = "create"
  /\ step = 3
  /\ id \notin StoredIds
  /\ UNCHANGED <<evaluations, evaluationsJson, now, session, edits, results,
                 proposals>>
  /\ IF validationError(title, mode, fieldMappings) # Null
     THEN /\ error' = validationError(title, mode, fieldMappings)
          /\ lastOp' = [op |-> "createTask", id |-> "none"]
          /\ UNCHANGED <<tasks, tasksJson, view, progressData, step, title, mode,
                         rawRecords, availableKeys, fieldMappings, dimensions,
                         reading>>
     ELSE /\ tasks' = saveTask(getTasks, newTask(id, title, mode, fieldMappings,
                                                 dimensions, rawRecords))
          /\ tasksJson' = "ok"
          /\ lastOp' = [op |-> "createTask", id |-> id]
          /\ mountDashboard
          /\ WizardUnmounted

(***************************************************************************)
(* pages/Results.tsx: the results page and its CSV export.  A text is the  *)
(* sequence of its pieces: a piece is one of the characters double quote,  *)
(* comma, backslash and line feed, or a run of other characters.  The      *)
(* instants of the model are the milliseconds that follow                  *)
(* 2026-01-01T00:00:00.000Z, so that no updatedAt is the number 0.         *)
(***************************************************************************)
\* a string value with a double quote, a comma and a line feed in it
QuoteCommaBreak == "a\",\nb"

\* a string value with a comma in it
CommaText == "a,b"

\* the pieces of a string of the model
Chars(s) ==
  IF s = "" THEN <<>>
  ELSE IF s = QuoteCommaBreak THEN <<"a", "\"", ",", "\n", "b">>
  ELSE IF s = CommaText THEN <<"a", ",", "b">>
  ELSE <<s>>

\* the values of JSON that are neither number nor string, and undefined
Bool(b) == [boolean |-> b]
Object(members) == [object |-> members]
Array(items) == [array |-> items]
Undefined == [undefined |-> TRUE]

\* o[key]
property(o, key) ==
  IF \E i \in 1..Len(o) : o[i][1] = key THEN Member(o, key) ELSE Undefined

\* texts.join(sep)
RECURSIVE join(_, _)
join(texts, sep) ==
  IF Len(texts) = 0 THEN <<>>
  ELSE IF Len(texts) = 1 THEN texts[1]
  ELSE texts[1] \o sep \o join(Tail(texts), sep)

\* JSON.stringify of a number, a boolean, null or a string
stringifyScalar(v) ==
  IF "null" \in DOMAIN v THEN <<"null">>
  ELSE IF "string" \in DOMAIN v
       THEN LET str == Chars(v.string)
            IN  <<"\"">>
                  \o join([i \in 1..Len(str) |->
                             IF str[i] = "\"" THEN <<"\\", "\"">>
                             ELSE IF str[i] = "\\" THEN <<"\\", "\\">>
                             ELSE IF str[i] = "\n" THEN <<"\\", "n">>
                             ELSE <<str[i]>>], <<>>)
                  \o <<"\"">>
       ELSE <<String(v)>>

\* JSON.stringify of an object or an array of numbers, booleans, nulls and
\* strings
JSONstringify(val) ==
  IF "array" \in DOMAIN val
  THEN <<"[">>
         \o join([i \in 1..Len(val.array) |-> stringifyScalar(val.array[i])],
                 <<",">>)
         \o <<"]">>
  ELSE <<"{">>
         \o join([i \in 1..Len(val.object) |->
                    <<"\"">> \o val.object[i][1] \o <<"\"", ":">>
                      \o stringifyScalar(val.object[i][2])], <<",">>)
         \o <<"}">>

\* str.replace(/"/g, '""')
doubled(str) ==
  join([i \in 1..Len(str) |->
          IF str[i] = "\"" THEN <<"\"", "\"">> ELSE <<str[i]>>], <<>>)

\* an encoding that leaves the double quotes of the text as they are
formatForCsv_raw(val) ==
  IF "null" \in DOMAIN val \/ "undefined" \in DOMAIN val THEN <<>>
  ELSE LET str == IF "object" \in DOMAIN val \/ "array" \in DOMAIN val
                  THEN JSONstringify(val)
                  ELSE Chars(String(val))
       IN  <<"\"">> \o str \o <<"\"">>

\* an encoding that writes a number or a boolean without the double quotes
formatForCsv_bare(val) ==
  IF "null" \in DOMAIN val \/ "undefined" \in DOMAIN val THEN <<>>
  ELSE IF "number" \in DOMAIN val \/ "boolean" \in DOMAIN val
       THEN Chars(String(val))
  ELSE LET str == IF "object" \in DOMAIN val \/ "array" \in DOMAIN val
                  THEN JSONstringify(val)
                  ELSE Chars(String(val))
       IN  <<"\"">> \o doubled(str) \o <<"\"">>

\* formatForCsv(val)
formatForCsv(val) ==
  IF "null" \in DOMAIN val \/ "undefined" \in DOMAIN val THEN <<>>
  ELSE LET str == IF "object" \in DOMAIN val \/ "array" \in DOMAIN val
                  THEN JSONstringify(val)
                  ELSE Chars(String(val))
       IN  <<"\"">> \o doubled(str) \o <<"\"">>

\* new Date(updatedAt).toISOString()
toISOString(updatedAt) == <<"2026-01-01T00:00:00.00", Digits[updatedAt + 1], "Z">>

\* task.fields.filter(f => f.role === 'context')
contextFields(t) == SelectSeq(t.fields, LAMBDA f : f.role = "context")

\* task.fields.find(f => f.role === role), Undefined when there is none
fieldOf(t, role) ==
  LET I == {i \in 1..Len(t.fields) : t.fields[i].role = role}
  IN  IF I = {} THEN Undefined ELSE t.fields[Min(I)]

\* keyX ? record.data[keyX] : '', for the key of the field of a role
valueOf(t, record, role) ==
  IF "key" \in DOMAIN fieldOf(t, role) /\ fieldOf(t, role).key # <<>>
  THEN property(record.data, fieldOf(t, role).key)
  ELSE Str("")

\* task.dimensions, nothing to iterate when the task has none
dimensionsOf(t) == IF "dimensions" \in DOMAIN t THEN t.dimensions ELSE <<>>

\* the headers of handleExport
headers(t) ==
  <<<<"Record ID">>>>
    \o [i \in 1..Len(contextFields(t)) |->
          <<"Context: ">> \o contextFields(t)[i].label]
    \o (IF t.mode = SCORING
        THEN << <<"Target: ">>
                  \o (IF "label" \in DOMAIN fieldOf(t, "target")
                         /\ fieldOf(t, "target").label # <<>>
                      THEN fieldOf(t, "target").label
                      ELSE <<"Target">>) >>
               \o [i \in 1..Len(dimensionsOf(t)) |->
                     <<"Score: ">> \o Chars(dimensionsOf(t)[i].name)]
        ELSE <<<<"Model A">>, <<"Model B">>, <<"Selection">>>>)
    \o <<<<"Comments">>, <<"Timestamp">>>>

\* result?.scores?.[d.id] || '', as join writes it
scoreCell(e, d) ==
  IF "result" \in DOMAIN e /\ "scores" \in DOMAIN e.result
     /\ d.id \in DOMAIN e.result.scores /\ e.result.scores[d.id] # 0
  THEN <<Digits[e.result.scores[d.id] + 1]>>
  ELSE <<>>

\* a selection cell that is left empty for a record without a selection
selectionCell_empty(e) ==
  IF "result" \in DOMAIN e /\ "comparisonSelection" \in DOMAIN e.result
  THEN <<e.result.comparisonSelection>>
  ELSE <<>>

\* result?.comparisonSelection || 'Pending'
selectionCell(e) ==
  IF "result" \in DOMAIN e /\ "comparisonSelection" \in DOMAIN e.result
  THEN <<e.result.comparisonSelection>>
  ELSE <<"Pending">>

\* the row of handleExport for one member of evaluations
row(t, e) ==
  <<Chars(e.record.id)>>
    \o [i \in 1..Len(contextFields(t)) |->
          formatForCsv(property(e.record.data, contextFields(t)[i].key))]
    \o (IF t.mode = SCORING
        THEN <<formatForCsv(valueOf(t, e.record, "target"))>>
               \o [i \in 1..Len(dimensionsOf(t)) |->
                     scoreCell(e, dimensionsOf(t)[i])]
        ELSE <<formatForCsv(valueOf(t, e.record, "modelA")),
               formatForCsv(valueOf(t, e.record, "modelB")),
               selectionCell(e)>>)
    \o <<formatForCsv(Str(IF "result" \in DOMAIN e THEN e.result.comment ELSE "")),
         IF "result" \in DOMAIN e THEN toISOString(e.result.updatedAt) ELSE <<>> >>

\* an export that writes the rows of the evaluated records only
csvRows_evaluated(t, evals) ==
  <<join(headers(t), <<",">>)>>
    \o [i \in 1..Len(SelectSeq(evals, LAMBDA e : "result" \in DOMAIN e)) |->
          join(row(t, SelectSeq(evals, LAMBDA e : "result" \in DOMAIN e)[i]),
               <<",">>)]

\* csvRows of handleExport
csvRows(t, evals) ==
  <<join(headers(t), <<",">>)>>
    \o [i \in 1..Len(evals) |-> join(row(t, evals[i]), <<",">>)]

\* t.records.map(record => ({ record, result: e[record.id] }))
combined(t, e) ==
  [i \in 1..Len(t.records) |->
     IF t.records[i].id \in DOMAIN e
     THEN [record |-> t.records[i], result |-> e[t.records[i].id]]
     ELSE [record |-> t.records[i]]]

\* the state of a results page that is not mounted: the useState initial values
ResultsUnmounted ==
  /\ resultsTask' = Null
  /\ resultsEvaluations' = <<>>

\* the load effect of the results page, on mount (the Results link of the
\* dashboard, or the address /results/id) and on a change of the route's
\* taskId; it throws at getTasks().find when getTasks() is no array and at
\* all[taskId] when getAllEvaluations() is null
openResults(id) ==
  /\ view \in {"dashboard", "results"}
  /\ id # taskId
  /\ taskId' = id
  /\ progressData' = EmptyMap
  /\ UNCHANGED <<store, now, task, currentIndex, currentResult, savedEvaluations,
                 isSaved, edits, wizard, proposals>>
  /\ IF tasksJson = "null" \/ evaluationsJson = "null"
     THEN /\ lastOp' = [op |-> "TypeError", from |-> "openResults"]
          /\ view' = "crashed"
          /\ ResultsUnmounted
     ELSE /\ lastOp' = [op |-> "openResults", id |-> id]
          /\ view' = "results"
          /\ LET t == find(getTasks, id)
                 e == getEvaluations(getAllEvaluations, id)
             IN  IF t # Null
                 THEN /\ resultsTask' = t
                      /\ resultsEvaluations' = combined(t, e)
                 ELSE UNCHANGED results

\* handleExport(), from the Export CSV button, which is rendered with a task;
\* the text of the Blob is csvRows.join('\n')
handleExport ==
  /\ view = "results"
  /\ resultsTask # Null
  /\ lastOp' = [op |-> "handleExport",
                csv |-> join(csvRows(resultsTask, resultsEvaluations), <<"\n">>)]
  /\ UNCHANGED <<store, now, view, session, progressData, edits, wizard,
                 results, proposals>>

\* <Link to="/"> of the results page, which is rendered with a task, or of the
\* layout
closeResults ==
  /\ view = "results"
  /\ UNCHANGED <<store, now, task, currentIndex, currentResult, savedEvaluations,
                 isSaved, edits, wizard, proposals>>
  /\ taskId' = "none"
  /\ mountDashboard
  /\ ResultsUnmounted
  /\ lastOp' = [op |-> "closeResults"]

(***************************************************************************)
(* Specifications                                                          *)
(***************************************************************************)
Tasks == {NewTask(id, ModeOf(id), ids) : id \in TaskIds, ids \in RecordLists}

\* the useState initial values of the wizard; of a Dimension, the fields the
\* validation and the session read
InitWizard ==
  /\ step = 1
  /\ error = Null
  /\ title = <<>>
  /\ mode = SCORING
  /\ rawRecords = <<>>
  /\ availableKeys = <<>>
  /\ fieldMappings = <<>>
  /\ dimensions = <<[id |-> "d1", min |-> 0, max |-> 5, step |-> <<1, 2>>]>>
  /\ reading = {}

InitSession ==
  /\ now = 0
  /\ view = "dashboard"
  /\ taskId = "none"
  /\ task = Null
  /\ currentIndex = 0
  /\ currentResult = Null
  /\ savedEvaluations = EmptyMap
  /\ isSaved = TRUE
  /\ lastOp = [op |-> "init"]
  /\ edits = 0
  /\ resultsTask = Null
  /\ resultsEvaluations = <<>>
  /\ proposals = {}

\* One evaluation session after another on a stored task: the dashboard of a
\* store that holds one task and no evaluation yet.
Init ==
  /\ tasks \in {<<t>> : t \in Tasks}
  /\ tasksJson = "ok"
  /\ evaluations = EmptyMap
  /\ evaluationsJson = "absent"
  /\ progressData = loadData(tasks, EmptyMap)
  /\ InitSession
  /\ InitWizard

Next ==
  \/ \E id \in TaskIds : loadEffect(id)
  \/ handleSave
  \/ handleNext
  \/ handlePrev
  \/ \E dimId \in DimIds, value \in ScoreValues : updateScore(dimId, value)
  \/ \E selection \in Selections : updateComparison(selection)
  \/ \E text \in Comments : updateComment(text)
  \/ goDashboard

Spec == Init /\ [][Next]_vars

\* The store over its life: tasks are created and deleted from the dashboard
\* and evaluated in sessions that save and navigate; the first start of the
\* application, with nothing stored.
InitStore ==
  /\ tasks = <<>>
  /\ tasksJson = "absent"
  /\ evaluations = EmptyMap
  /\ evaluationsJson = "absent"
  /\ progressData = EmptyMap
  /\ InitSession
  /\ InitWizard

NextStore ==
  \/ \E id \in TaskIds, ids \in RecordLists : handleCreateTask(id, ModeOf(id), ids)
  \/ \E id \in TaskIds : handleDelete(id)
  \/ \E id \in TaskIds : loadEffect(id)
  \/ handleSave
  \/ handleNext
  \/ handlePrev
  \/ goDashboard

SpecStore == InitStore /\ [][NextStore]_vars

\* The wizard: from the dashboard of a store with nothing in it to the tasks
\* it creates.
NextWizard ==
  \/ openCreate
  \/ cancel
  \/ \E text \in Titles : setTitle(text)
  \/ \E m \in {SCORING, COMPARISON} : setMode(m)
  \/ back
  \/ next
  \/ \E file \in Files : handleFileUpload(file)
  \/ \E read \in reading : onload(read)
  \/ \E i \in 1..Len(fieldMappings), role \in RoleOptions(mode) :
       updateMapping(fieldMappings[i].key, role)
  \/ addDimension
  \/ \E i \in 1..Len(dimensions) : removeDimension(dimensions[i].id)
  \/ \E i \in 1..Len(dimensions), value \in MaxScores :
       updateDimension(dimensions[i].id, "max", value)
  \/ createTask(IF "t1" \in StoredIds THEN "t2" ELSE "t1")

SpecWizard == InitStore /\ [][NextWizard]_vars

\* The store under values that the application did not write: sessions on a
\* stored task, its deletion, and a key that is overwritten at any moment.
NextBacking ==
  \/ \E kind \in Unreadable : tasksOverwritten(kind)
  \/ \E kind \in Unreadable : evaluationsOverwritten(kind)
  \/ \E id \in TaskIds : loadEffect(id)
  \/ \E id \in TaskIds : handleDelete(id)
  \/ handleSave
  \/ handleNext
  \/ handlePrev
  \/ goDashboard

SpecBacking == Init /\ [][NextBacking]_vars

\* The export: sessions on a stored task that the wizard wrote, and the
\* results page.  The tasks: the Scoring scenario
\* [{"id":"1","prompt":"Q","response":"A"}] with the proposed roles and the
\* dimension Quality; two records of every kind of value under the proposed
\* roles of each mode; and the same two records with id mapped to context,
\* response ignored and two dimensions.
Item1 == <<<<K_id, Str("1")>>, <<K_prompt, Str("Q")>>, <<K_response, Str("A")>>>>
ItemX ==
  <<<<K_id, Num(1)>>, <<K_prompt, Str(QuoteCommaBreak)>>, <<K_response, Num(7)>>,
    <<K_model_a, Bool(TRUE)>>, <<K_model_b, Object(<<<<<<"k">>, Str("x")>>>>)>>>>
ItemY == <<<<K_prompt, Null>>, <<K_model_a, Array(<<Num(1), Num(2)>>)>>>>

Quality == [id |-> "d1", name |-> "Quality", min |-> 0, max |-> 5, step |-> <<1, 2>>]
Depth == [id |-> "d2", name |-> "Depth", min |-> 0, max |-> 5, step |-> <<1, 2>>]

\* the mappings after updateMapping(key, role)
remapped(mappings, key, role) ==
  [i \in 1..Len(mappings) |->
     IF mappings[i].key = key THEN Spread(mappings[i], "role", role)
     ELSE mappings[i]]

ExportTasks ==
  {newTask("t1", <<"T">>, SCORING, initialMappings(ObjectKeys(Item1), SCORING),
           <<Quality>>, normalized(<<Item1>>)),
   newTask("t1", <<"T">>, SCORING, initialMappings(ObjectKeys(ItemX), SCORING),
           <<Quality>>, normalized(<<ItemX, ItemY>>)),
   newTask("t1", <<"T">>, SCORING,
           remapped(remapped(initialMappings(ObjectKeys(ItemX), SCORING),
                             K_id, "context"), K_response, "ignore"),
           <<Quality, Depth>>, normalized(<<ItemX, ItemY>>)),
   newTask("t1", <<"T">>, COMPARISON,
           initialMappings(ObjectKeys(ItemX), COMPARISON),
           <<Quality>>, normalized(<<ItemX, ItemY>>))}

\* the values of the range input of a dimension and the text typed as comment
ExportScores == {0, 4}
ExportComments == {QuoteCommaBreak}

InitExport ==
  /\ tasks \in {<<t>> : t \in ExportTasks}
  /\ tasksJson = "ok"
  /\ evaluations = EmptyMap
  /\ evaluationsJson = "absent"
  /\ progressData = loadData(tasks, EmptyMap)
  /\ InitSession
  /\ InitWizard

NextExport ==
  \/ \E id \in TaskIds : loadEffect(id)
  \/ \E dimId \in DimIds, value \in ExportScores : updateScore(dimId, value)
  \/ \E selection \in Selections : updateComparison(selection)
  \/ \E text \in ExportComments : updateComment(text)
  \/ handleSave
  \/ handleNext
  \/ goDashboard
  \/ \E id \in TaskIds : openResults(id)
  \/ handleExport
  \/ closeResults

SpecExport == InitExport /\ [][NextExport]_vars

\* The export of tasks whose texts hold a comma: a record id taken from the
\* file, the name typed for a dimension, and the label made from a key.
K_prompt_x == <<"p", "r", "o", "m", "p", "t", ",", "x">>

ItemCommaId ==
  <<<<K_id, Str(CommaText)>>, <<K_prompt, Str("Q")>>, <<K_response, Str("A")>>>>
ItemCommaKey ==
  <<<<K_id, Str("1")>>, <<K_prompt_x, Str("Q")>>, <<K_model_a, Str("A")>>,
    <<K_model_b, Str("B")>>>>

\* the dimension after updateDimension(id, 'name', 'a,b')
QualityComma == Spread(Quality, "name", CommaText)

CsvTasks ==
  {newTask("t1", <<"T">>, SCORING,
           initialMappings(ObjectKeys(ItemCommaId), SCORING),
           <<Quality>>, normalized(<<ItemCommaId>>)),
   newTask("t1", <<"T">>, SCORING, initialMappings(ObjectKeys(Item1), SCORING),
           <<QualityComma>>, normalized(<<Item1>>)),
   newTask("t1", <<"T">>, COMPARISON,
           initialMappings(ObjectKeys(ItemCommaKey), COMPARISON),
           <<Quality>>, normalized(<<ItemCommaKey>>))}

InitCsv ==
  /\ tasks \in {<<t>> : t \in CsvTasks}
  /\ tasksJson = "ok"
  /\ evaluations = EmptyMap
  /\ evaluationsJson = "absent"
  /\ progressData = loadData(tasks, EmptyMap)
  /\ InitSession
  /\ InitWizard

SpecCsv == InitCsv /\ [][NextExport]_vars


\* Field inference: a wizard at step 2, fresh or after an earlier import whose
\* proposal the operator changed in the role of its first field, and the
\* imports that follow, with fields set to ignore.  The keys of the files
\* meet every rule of the proposal, two rules at once, and upper case; FileP
\* and FileP2 have the same keys and other values.
K_Prompt == <<"P", "r", "o", "m", "p", "t">>
K_outputa == <<"o", "u", "t", "p", "u", "t", "a">>
K_x_a == <<"x", "_", "a">>
K_answer_b == <<"a", "n", "s", "w", "e", "r", "_", "b">>
K_query_a == <<"q", "u", "e", "r", "y", "_", "a">>
K_ModelB == <<"M", "o", "d", "e", "l", "B">>
K_xmodela == <<"x", "m", "o", "d", "e", "l", "a">>

FileP ==
  ArrayOf(<<<<<<K_Prompt, Str("p")>>, <<K_query_a, Str("q")>>,
             <<K_outputa, Str("x")>>, <<K_x_a, Str("y")>>, <<K_ModelB, Str("z")>>,
             <<K_answer_b, Str("x")>>, <<K_xmodela, Str("y")>>>>>>)
FileP2 ==
  ArrayOf(<<<<<<K_Prompt, Num(1)>>, <<K_query_a, Num(2)>>,
             <<K_outputa, Num(3)>>, <<K_x_a, Num(4)>>, <<K_ModelB, Num(5)>>,
             <<K_answer_b, Num(6)>>, <<K_xmodela, Num(7)>>>>>>)
InferenceFiles == {FileP, FileP2}

InitInference ==
  /\ tasks = <<>>
  /\ tasksJson = "absent"
  /\ evaluations = EmptyMap
  /\ evaluationsJson = "absent"
  /\ progressData = EmptyMap
  /\ now = 0
  /\ taskId = "none"
  /\ task = Null
  /\ currentIndex = 0
  /\ currentResult = Null
  /\ savedEvaluations = EmptyMap
  /\ isSaved = TRUE
  /\ edits = 0
  /\ resultsTask = Null
  /\ resultsEvaluations = <<>>
  /\ view = "create"
  /\ step = 2
  /\ error = Null
  /\ title = <<>>
  /\ dimensions = <<[id |-> "d1", min |-> 0, max |-> 5, step |-> <<1, 2>>]>>
  /\ reading = {}
  /\ mode \in {SCORING, COMPARISON}
  /\ \/ /\ rawRecords = <<>>
        /\ availableKeys = <<>>
        /\ fieldMappings = <<>>
        /\ proposals = {}
        /\ lastOp = [op |-> "next"]
     \/ \E file \in InferenceFiles :
          LET keys == ObjectKeys(file.json[1])
          IN  \E role \in RoleOptions(mode) :
                /\ rawRecords = normalized(file.json)
                /\ availableKeys = keys
                /\ fieldMappings =
                     remapped(initialMappings(keys, mode), keys[1], role)
                /\ proposals =
                     {proposal(keys, mode, <<>>, initialMappings(keys, mode))}
                /\ lastOp = [op |-> "back"]

NextInference ==
  \/ \E m \in {SCORING, COMPARISON} : setMode(m)
  \/ back
  \/ next
  \/ \E file \in InferenceFiles : handleFileUpload(file)
  \/ \E read \in reading : onload(read)
  \/ \E i \in 1..Len(fieldMappings) : updateMapping(fieldMappings[i].key, "ignore")

SpecInference == InitInference /\ [][NextInference]_vars

(***************************************************************************)
(* Properties                                                              *)
(***************************************************************************)
\* the judgment of a result: every field but the timestamp
SameJudgment(a, b) ==
  /\ DOMAIN a = DOMAIN b
  /\ \A k \in DOMAIN a \ {"updatedAt"} : a[k] = b[k]

\* the maps m and n agree on every key but k
SameBut(m, n, k) ==
  /\ DOMAIN m \ {k} = DOMAIN n \ {k}
  /\ \A x \in DOMAIN m \ {k} : m[x] = n[x]

Saving == {"handleSave", "handleNext", "handlePrev"}

\* the record that is current in a mounted session
currentRecord == task.records[currentIndex + 1]

\* C1: handleDelete(id) -> deleteTask(id) removes exactly the stored tasks
\* whose id is id and exactly the evaluation map keyed by id: no task with
\* that id is left, getEvaluations(id) is the empty map, the other tasks keep
\* their value and order, and every other task's evaluation map is unchanged.
C1_DeleteCascades ==
  [][lastOp'.op = "handleDelete" =>
       LET id == lastOp'.id
           kept == {i \in 1..Len(tasks) : tasks[i].id # id}
       IN  /\ \A i \in 1..Len(tasks') : tasks'[i].id # id
           /\ getEvaluations(evaluations', id) = EmptyMap
           /\ id \notin DOMAIN evaluations'
           /\ Len(tasks') = Cardinality(kept)
           /\ \A i \in kept :
                tasks'[Cardinality({j \in kept : j <= i})] = tasks[i]
           /\ SameBut(evaluations', evaluations, id)]_vars

\* C1 witness: a task with saved evaluations was deleted while another stored
\* task keeps its own evaluations.
C1_Witness ==
  /\ lastOp.op = "handleDelete"
  /\ lastOp.removed > 0
  /\ \E i \in 1..Len(tasks) : KeyCount(getEvaluations(evaluations, tasks[i].id)) > 0

\* C2: right after handleSave, getEvaluations(task.id) has an entry for the
\* current record that carries the draft's scores, selection and comment and
\* an updatedAt not earlier than the clock at the call.
C2_SaveThenRead ==
  [][lastOp'.op = "handleSave" =>
       LET evals == getEvaluations(evaluations', task.id)
           id == currentRecord.id
       IN  /\ id \in DOMAIN evals
           /\ SameJudgment(evals[id], currentResult)
           /\ evals[id].recordId = id
           /\ evals[id].updatedAt >= now]_vars

\* C2 witness: a draft that was loaded earlier and edited is saved after the
\* clock has advanced.
C2_Witness ==
  /\ lastOp.op = "handleSave"
  /\ view = "evaluate"
  /\ currentResult.updatedAt < now
  /\ currentResult.comment = "c"
  /\ evaluations[task.id][currentRecord.id].updatedAt = now

\* C3: a save is an upsert keyed by (taskId, recordId): the entry of the pair
\* is the whole saved value (the draft with the new timestamp, no field of
\* the earlier entry kept), and every entry of another record or of another
\* task is unchanged.
C3_SaveIsUpsert ==
  [][lastOp'.op \in Saving =>
       LET id == task.id
           rid == currentResult.recordId
           entry == evaluations'[id][rid]
       IN  /\ id \in DOMAIN evaluations'
           /\ rid \in DOMAIN evaluations'[id]
           /\ SameJudgment(entry, currentResult)
           /\ entry.updatedAt \in now..now'
           /\ SameBut(evaluations', evaluations, id)
           /\ SameBut(evaluations'[id], getEvaluations(evaluations, id), rid)]_vars

\* C3 witness: an entry is overwritten by a later save while another record
\* of the task and another task have entries of their own.
C3_Witness ==
  /\ lastOp.op = "handleSave"
  /\ lastOp.again
  /\ view = "evaluate"
  /\ evaluations[task.id][currentRecord.id].updatedAt > currentResult.updatedAt
  /\ KeyCount(evaluations[task.id]) = 2
  /\ \E id \in DOMAIN evaluations : id # task.id /\ KeyCount(evaluations[id]) > 0

\* C4: handleNext and handlePrev persist the draft of the record that is
\* current before the move, edited or not: after the call the store has an
\* entry for that record with the draft's scores, selection and comment.
C4_AutoSaveOnNavigate ==
  [][lastOp'.op \in {"handleNext", "handlePrev"} =>
       LET evals == getEvaluations(evaluations', task.id)
           id == currentRecord.id
       IN  /\ id \in DOMAIN evals
           /\ SameJudgment(evals[id], currentResult)]_vars

\* C4 witness: handleNext moved off a record whose draft was never edited,
\* and the store holds that record's entry.
C4_Witness ==
  /\ lastOp.op = "handleNext"
  /\ view = "evaluate"
  /\ edits = 0
  /\ currentIndex = lastOp.from + 1
  /\ task.records[lastOp.from + 1].id # currentRecord.id
  /\ task.records[lastOp.from + 1].id \in DOMAIN evaluations[task.id]

\* C5: handleNext moves currentIndex by +1 and handlePrev by -1 while the
\* result stays in [0, records.length - 1]; at the last index handleNext, and
\* at index 0 handlePrev, leave it unchanged.
C5_ClampedMoves ==
  [][/\ lastOp'.op = "handleNext" =>
          currentIndex' = IF currentIndex = Len(task.records) - 1
                          THEN currentIndex ELSE currentIndex + 1
     /\ lastOp'.op = "handlePrev" =>
          currentIndex' = IF currentIndex = 0
                          THEN currentIndex ELSE currentIndex - 1
     /\ lastOp'.op \in {"handleNext", "handlePrev"} =>
          currentIndex' \in 0..(Len(task.records) - 1)]_vars

\* C5 witness: handleNext at the last record of a task of two records left
\* the index where it was.
C5_Witness ==
  /\ lastOp.op = "handleNext"
  /\ view = "evaluate"
  /\ Len(task.records) = 2
  /\ lastOp.from = 1
  /\ currentIndex = 1

\* the index the specification gives a loaded task: the first record without
\* a saved entry, 0 when every record has one
resumeIndex(records, evals) ==
  LET I == {i \in 1..Len(records) : records[i].id \notin DOMAIN evals}
  IN  IF I = {} THEN 0 ELSE Min(I) - 1

\* C6: whenever a task is loaded into the session, also into a session that
\* showed another task, currentIndex becomes the index of the first record
\* without an entry in the task's saved evaluations, and 0 when every record
\* has one.
C6_ResumeAtFirstUnevaluated ==
  [][(lastOp'.op = "loadEffect" /\ view' = "evaluate") =>
       currentIndex' = resumeIndex(task'.records,
                                   getEvaluations(evaluations, task'.id))]_vars

\* C7: after a save the session is marked saved and its savedEvaluations is
\* the store's map of the task, updatedAt included.
C7_SavedMapMirrorsStore ==
  (view = "evaluate" /\ lastOp.op \in Saving) =>
    /\ isSaved
    /\ savedEvaluations = getEvaluations(evaluations, task.id)

\* C8: on every change of currentIndex and on every task load the draft is
\* the savedEvaluations entry of the now-current record when there is one,
\* otherwise a fresh draft of that record (empty scores for Scoring, none for
\* Comparison, no selection, empty comment); isSaved is true; loading writes
\* nothing: a task load leaves the store alone and takes savedEvaluations
\* from it, a move writes only what its save writes.
C8_DraftLoading ==
  [][(view' = "evaluate" /\
      (lastOp'.op = "loadEffect" \/
       (lastOp'.op \in Saving /\ currentIndex' # currentIndex))) =>
       LET id == task'.records[currentIndex' + 1].id
       IN  /\ isSaved'
           /\ IF id \in DOMAIN savedEvaluations'
              THEN currentResult' = savedEvaluations'[id]
              ELSE /\ currentResult'.taskId = task'.id
                   /\ currentResult'.recordId = id
                   /\ currentResult'.comment = ""
                   /\ "comparisonSelection" \notin DOMAIN currentResult'
                   /\ IF task'.mode = SCORING
                      THEN currentResult'.scores = EmptyMap
                      ELSE "scores" \notin DOMAIN currentResult'
           /\ IF lastOp'.op = "loadEffect"
              THEN /\ UNCHANGED store
                   /\ savedEvaluations' = getEvaluations(evaluations, task'.id)
              ELSE /\ tasks' = tasks
                   /\ SameBut(savedEvaluations', savedEvaluations,
                              currentResult.recordId)
                   /\ SameBut(evaluations'[task.id],
                              getEvaluations(evaluations, task.id),
                              currentResult.recordId)]_vars

\* C8 witness: handlePrev moved back to a record that was saved with a
\* comment, and the draft is that entry; the record left behind differs.
C8_Witness ==
  /\ lastOp.op = "handlePrev"
  /\ view = "evaluate"
  /\ currentIndex = lastOp.from - 1
  /\ currentRecord.id \in DOMAIN savedEvaluations
  /\ task.records[lastOp.from + 1].id # currentRecord.id
  /\ currentResult = savedEvaluations[currentRecord.id]
  /\ currentResult.comment = "c"
  /\ task.mode = COMPARISON
  /\ isSaved

\* C9: updateScore, updateComparison and updateComment replace only their own
\* field of the draft (updateScore only the score of its dimension), set
\* isSaved to false and leave currentIndex, savedEvaluations, the task and
\* the store unchanged.
C9_MutationsFrame ==
  [][lastOp'.op \in {"updateScore", "updateComparison", "updateComment"} =>
       LET field == CASE lastOp'.op = "updateScore" -> "scores"
                      [] lastOp'.op = "updateComparison" -> "comparisonSelection"
                      [] OTHER -> "comment"
       IN  /\ isSaved' = FALSE
           /\ field \in DOMAIN currentResult'
           /\ SameBut(currentResult', currentResult, field)
           /\ lastOp'.op = "updateScore" =>
                /\ lastOp'.dimId \in DOMAIN currentResult'.scores
                /\ SameBut(currentResult'.scores,
                           IF "scores" \in DOMAIN currentResult
                           THEN currentResult.scores ELSE EmptyMap,
                           lastOp'.dimId)
           /\ UNCHANGED <<store, task, taskId, currentIndex, savedEvaluations, view>>]_vars

\* C9 witness: updateScore set the score of one dimension in a draft that
\* already had the score of the other one.
C9_Witness ==
  /\ lastOp.op = "updateScore"
  /\ view = "evaluate"
  /\ ~isSaved
  /\ DOMAIN currentResult.scores = DimIds

\* C10: a second handleSave right after a handleSave leaves the store with the
\* same entries, the saved record's entry with the same scores, selection and
\* comment and at most another updatedAt, and the same number of saved records.
C10_SaveTwice ==
  [][(lastOp'.op = "handleSave" /\ lastOp'.again) =>
       LET before == getEvaluations(evaluations, task.id)
           after == getEvaluations(evaluations', task.id)
           id == currentRecord.id
       IN  /\ DOMAIN after = DOMAIN before
           /\ KeyCount(after) = KeyCount(before)
           /\ SameBut(after, before, id)
           /\ SameJudgment(after[id], before[id])
           /\ SameBut(evaluations', evaluations, task.id)]_vars

\* C10 witness: an edited draft was saved, and the second save of a row gave
\* its entry a later timestamp.
C10_Witness ==
  /\ lastOp.op = "handleSave"
  /\ lastOp.again
  /\ view = "evaluate"
  /\ isSaved
  /\ edits > 0
  /\ currentResult.comment = "c"
  /\ currentResult.updatedAt = 0
  /\ savedEvaluations[currentRecord.id].updatedAt = 0
  /\ evaluations[task.id][currentRecord.id].updatedAt = 1

\* every record of the task t has an entry in the evaluation map evals
AllSaved(t, evals) == \A i \in 1..Len(t.records) : t.records[i].id \in DOMAIN evals

\* C11: for a task with records, the percent is 100 exactly when each record
\* id of the task has an entry in the evaluation map: the progress of the
\* session over savedEvaluations, and the percent of the dashboard's card over
\* the stored map of the task.
C11_FullIffAllSaved ==
  /\ view = "evaluate" =>
       (progress(savedEvaluations, task.records) = 100
          <=> AllSaved(task, savedEvaluations))
  /\ view = "dashboard" =>
       \A i \in 1..Len(tasks) :
         Len(tasks[i].records) > 0 =>
           (percent(tasks[i], progressData) = 100
              <=> AllSaved(tasks[i], getEvaluations(evaluations, tasks[i].id)))

\* p is num / den rounded to a nearest integer
IsRounded(p, num, den) ==
  /\ 2 * den * p - den <= 2 * num
  /\ 2 * num <= 2 * den * p + den

C13_ProgressMonotone ==
  [][/\ (view = "evaluate" /\ view' = "evaluate") =>
          progress(savedEvaluations', task'.records)
            >= progress(savedEvaluations, task.records)
     /\ (view = "dashboard" /\ view' = "evaluate") =>
          progress(savedEvaluations', task'.records)
            >= percent(task', progressData)
     /\ (view' = "evaluate" /\ savedEvaluations' = EmptyMap) =>
          progress(savedEvaluations', task'.records) = 0]_vars

\* C13 witness: a session that was opened again on a half evaluated task has
\* saved the other record.
C13_Witness ==
  /\ view = "evaluate"
  /\ lastOp.op \in Saving
  /\ Len(task.records) = 2
  /\ progress(savedEvaluations, task.records) = 100
  /\ \E id \in DOMAIN savedEvaluations :
       savedEvaluations[id].updatedAt < evaluations[task.id][id].updatedAt

\* the text has no character but white space
IsBlank(text) == \A i \in 1..Len(text) : text[i] = " "

\* some mapping of the wizard has the role
HasRole(role) == \E i \in 1..Len(fieldMappings) : fieldMappings[i].role = role

\* C14: a creation attempt whose title is empty after trimming fails with the
\* title-required error and has no side effect: the stored tasks and the
\* evaluations are as before, the wizard stays where it was, no Task is
\* written.
C14_BlankTitleRejected ==
  [][(lastOp'.op = "createTask" /\ IsBlank(title)) =>
       /\ error' = TitleRequired
       /\ UNCHANGED <<tasks, tasksJson, evaluations, evaluationsJson>>
       /\ UNCHANGED <<view, step, title, mode, rawRecords, availableKeys,
                      fieldMappings, dimensions>>]_vars

\* C14 witness: the Create Task button was pressed over imported records with
\* a title of white space.
C14_Witness ==
  /\ lastOp.op = "createTask"
  /\ view = "create"
  /\ title = <<" ">>
  /\ Len(rawRecords) > 0
  /\ error = TitleRequired
  /\ tasks = <<>>

\* C15: a creation attempt in Comparison mode with no field mapped to modelA
\* or no field mapped to modelB fails and writes no Task; the error is the
\* missing-A/B-mapping one, and the title-required one when the title is
\* blank as well.
C15_MissingMappingRejected ==
  [][(/\ lastOp'.op = "createTask"
      /\ mode = COMPARISON
      /\ ~ (HasRole("modelA") /\ HasRole("modelB"))) =>
       /\ error' = IF IsBlank(title) THEN TitleRequired ELSE MappingRequired
       /\ UNCHANGED <<tasks, tasksJson, evaluations, evaluationsJson>>
       /\ view' = "create"]_vars

\* C15 witness: the Create Task button was pressed in Comparison mode with a
\* title, a field mapped to modelA and none mapped to modelB.
C15_Witness ==
  /\ lastOp.op = "createTask"
  /\ view = "create"
  /\ mode = COMPARISON
  /\ ~ IsBlank(title)
  /\ HasRole("modelA")
  /\ ~ HasRole("modelB")
  /\ error = MappingRequired
  /\ tasks = <<>>

\* C16: every Dimension of every stored Scoring task has min < max and
\* step > 0.
C16_DimensionsValid ==
  \A i \in 1..Len(tasks) :
    tasks[i].mode = SCORING =>
      \A j \in 1..Len(tasks[i].dimensions) :
        /\ tasks[i].dimensions[j].min < tasks[i].dimensions[j].max
        /\ tasks[i].dimensions[j].step[1] > 0
        /\ tasks[i].dimensions[j].step[2] > 0

\* the roles a field of a task of the mode m may have
RoleSpace(m) ==
  IF m = SCORING THEN {"context", "target"} ELSE {"context", "modelA", "modelB"}

\* C17: each role in the field list of a stored Task belongs to the role space
\* of the task's mode.
C17_RolesOfMode ==
  \A i \in 1..Len(tasks) :
    \A j \in 1..Len(tasks[i].fields) :
      tasks[i].fields[j].role \in RoleSpace(tasks[i].mode)

\* C18: the onload of an array of length N leaves N records, in the order of
\* the array, with pairwise distinct ids; the record of an object that has an
\* id has the string form of that id.
C18_ImportedRecords ==
  [][(lastOp'.op = "onload" /\ lastOp'.read.file.parse = "array") =>
       LET json == lastOp'.read.file.json
       IN  /\ Len(rawRecords') = Len(json)
           /\ \A i \in 1..Len(json) : rawRecords'[i].data = json[i]
           /\ \A i, j \in 1..Len(json) :
                i # j => rawRecords'[i].id # rawRecords'[j].id
           /\ \A i \in 1..Len(json) :
                HasMember(json[i], K_id) =>
                  rawRecords'[i].id = String(Member(json[i], K_id))]_vars

\* the files whose import succeeds
GoodFiles == {f \in Files : f.parse = "array"}

\* C19: the onload of a file that is no JSON or no array sets the error and
\* leaves rawRecords, availableKeys and fieldMappings as they were; while
\* nothing is imported the Next button of step 2 does not go on; and the
\* records of a stored Task are those of a file whose import succeeded.
C19_FailedImportKeepsState ==
  [][/\ (lastOp'.op = "onload" /\ lastOp'.read.file.parse # "array") =>
          /\ error' = InvalidFile
          /\ UNCHANGED <<rawRecords, availableKeys, fieldMappings>>
     /\ (lastOp'.op = "next" /\ step = 2 /\ Len(rawRecords) = 0) =>
          /\ step' = 2
          /\ error' = UploadRequired
     /\ \A i \in 1..Len(tasks') :
          \E f \in GoodFiles :
            /\ Len(tasks'[i].records) = Len(f.json)
            /\ \A j \in 1..Len(f.json) : tasks'[i].records[j].data = f.json[j]]_vars

\* C19 witness: a file that is no array was read after an import that
\* succeeded, whose records and mappings the wizard still holds.
C19_Witness ==
  /\ lastOp.op = "onload"
  /\ lastOp.read.file = NotArray
  /\ error = InvalidFile
  /\ Len(rawRecords) > 0
  /\ Len(fieldMappings) > 0

\* C20: whatever a key holds, the reads degrade and no caller faults: while
\* the tasks key is gone or is no JSON, getTasks() is the empty list; while
\* the evaluations key holds anything but a stored map, getEvaluations(id) is
\* the empty map; no handler and no effect stops on a TypeError, and no page
\* is taken down by a getTasks() that is no array.
C20_ReadsDegrade ==
  /\ lastOp.op # "TypeError"
  /\ view = "crashed" => tasksJson # "null"
  /\ tasksJson \in {"absent", "syntax"} => Len(getTasks) = 0
  /\ evaluationsJson # "ok" =>
       \A id \in TaskIds : KeyCount(getEvaluations(getAllEvaluations, id)) = 0

(***************************************************************************)
(* The standard CSV rule (RFC 4180), for reading an export back: a comma   *)
(* or a line feed separates when an even number of double quotes precedes  *)
(* it; a field in double quotes stands for its inside with each doubled    *)
(* double quote replaced by one.                                           *)
(***************************************************************************)
\* the k-th smallest member of a set of numbers
nth(S, k) == CHOOSE x \in S : Cardinality({y \in S : y < x}) = k - 1

\* the parts of a text between the pieces sep that no double quotes enclose
split(text, sep) ==
  LET B == {i \in 1..Len(text) :
              /\ text[i] = sep
              /\ Cardinality({j \in 1..(i - 1) : text[j] = "\""}) % 2 = 0}
      cuts == {0} \cup B \cup {Len(text) + 1}
  IN  [k \in 1..(Cardinality(B) + 1) |->
         SubSeq(text, nth(cuts, k) + 1, nth(cuts, k + 1) - 1)]

\* the rows of a document, each the sequence of its fields as written
csvRead(text) ==
  LET lines == split(text, "\n")
  IN  [r \in 1..Len(lines) |-> split(lines[r], ",")]

RECURSIVE undoubled(_)
undoubled(str) ==
  IF Len(str) = 0 THEN <<>>
  ELSE IF Len(str) >= 2 /\ str[1] = "\"" /\ str[2] = "\""
       THEN <<"\"">> \o undoubled(SubSeq(str, 3, Len(str)))
       ELSE <<str[1]>> \o undoubled(Tail(str))

IsQuoted(cell) == Len(cell) >= 2 /\ cell[1] = "\"" /\ cell[Len(cell)] = "\""

\* the text a field stands for
decoded(cell) ==
  IF IsQuoted(cell) THEN undoubled(SubSeq(cell, 2, Len(cell) - 1)) ELSE cell

\* the document of the last export, read back
Exported == csvRead(lastOp.csv)

\* the stored result of the i-th record of the task on the results page
StoredResults == getEvaluations(evaluations, resultsTask.id)
Evaluated(i) == resultsTask.records[i].id \in DOMAIN StoredResults
ResultOf(i) == StoredResults[resultsTask.records[i].id]

\* C21: an export has one header row and then one data row per record of the
\* task, in import order, whatever number of records is evaluated; the row
\* of a record without a saved result has empty score cells (Scoring) or
\* Pending as its selection (Comparison), and an empty comment and timestamp.
C21_OneRowPerRecord ==
  lastOp.op = "handleExport" =>
    LET t == resultsTask
        doc == Exported
    IN  /\ Len(doc) = 1 + Len(t.records)
        /\ doc[1][Len(doc[1])] = <<"Timestamp">>
        /\ \A i \in 1..Len(t.records) :
             LET cells == doc[i + 1]
                 n == Len(cells)
             IN  /\ n = Len(doc[1])
                 /\ cells[1] = Chars(t.records[i].id)
                 /\ ~ Evaluated(i) =>
                      /\ decoded(cells[n - 1]) = <<>>
                      /\ cells[n] = <<>>
                      /\ IF t.mode = SCORING
                         THEN \A k \in 1..Len(t.dimensions) :
                                cells[n - 2 - Len(t.dimensions) + k] = <<>>
                         ELSE cells[n - 2] = <<"Pending">>

\* an export of a task with two records of which exactly the first is saved
C21_Witness ==
  /\ lastOp.op = "handleExport"
  /\ Len(resultsTask.records) = 2
  /\ Evaluated(1)
  /\ ~ Evaluated(2)
  /\ Len(Exported) = 3

\* the columns the header is to have for the task t, after its first column
ColumnsAfterId(t) ==
  LET ctx == SelectSeq(t.fields, LAMBDA f : f.role = "context")
      tgt == SelectSeq(t.fields, LAMBDA f : f.role = "target")
  IN  [i \in 1..Len(ctx) |-> <<"Context: ">> \o ctx[i].label]
        \o (IF t.mode = SCORING
            THEN << <<"Target: ">>
                      \o (IF Len(tgt) > 0 THEN tgt[1].label ELSE <<"Target">>) >>
                   \o [i \in 1..Len(t.dimensions) |->
                         <<"Score: ", t.dimensions[i].name>>]
            ELSE <<<<"Model A">>, <<"Model B">>, <<"Selection">>>>)
        \o <<<<"Comments">>, <<"Timestamp">>>>

\* the task of the Scoring scenario is on the results page
ScoringScenario ==
  /\ resultsTask.mode = SCORING
  /\ Len(resultsTask.records) = 1
  /\ resultsTask.records[1].id = "1"

\* C22: the header of an export is RecordID, one Context: <label> per context
\* field in field order, then Target: <label> (or Target: Target when no
\* field is the target) and one Score: <name> per dimension in order for a
\* Scoring task, or Model A, Model B, Selection for a Comparison task, then
\* Comments and Timestamp; for the Scoring scenario it is
\* RecordID,Context: Prompt,Target: Response,Score: Quality,Comments,Timestamp.
C22_Header ==
  lastOp.op = "handleExport" =>
    /\ Exported[1] = <<<<"RecordID">>>> \o ColumnsAfterId(resultsTask)
    /\ ScoringScenario =>
         split(lastOp.csv, "\n")[1] =
           <<"RecordID", ",", "Context: ", "P", "r", "o", "m", "p", "t", ",",
             "Target: ", "R", "e", "s", "p", "o", "n", "s", "e", ",",
             "Score: ", "Quality", ",", "Comments", ",", "Timestamp">>

\* the cell of the k-th dimension in the data row of the i-th record
ScoreCellOf(i, k) ==
  Exported[i + 1][Len(Exported[i + 1]) - 2 - Len(resultsTask.dimensions) + k]

\* C23: in the export of a Scoring task the score cell of a record and a
\* dimension is the saved number, unquoted, whenever a score is saved for the
\* dimension, the minimum 0 included, and is empty only when none is saved.
C23_ScoreCells ==
  (lastOp.op = "handleExport" /\ resultsTask.mode = SCORING) =>
    \A i \in 1..Len(resultsTask.records), k \in 1..Len(resultsTask.dimensions) :
      LET d == resultsTask.dimensions[k]
      IN  IF Evaluated(i) /\ d.id \in DOMAIN ResultOf(i).scores
          THEN ScoreCellOf(i, k) = <<Digits[ResultOf(i).scores[d.id] + 1]>>
          ELSE ScoreCellOf(i, k) = <<>>

\* the text of a value that is neither null nor undefined: the JSON text of
\* an object or an array, the string form of any other value
TextOf(val) ==
  IF "object" \in DOMAIN val \/ "array" \in DOMAIN val THEN JSONstringify(val)
  ELSE IF "number" \in DOMAIN val THEN <<Digits[val.number + 1]>>
  ELSE IF "boolean" \in DOMAIN val THEN (IF val.boolean THEN <<"true">> ELSE <<"false">>)
  ELSE Chars(val.string)

\* the cell follows the encoding rule for the value val: empty for null and
\* undefined, and otherwise the text of val in double quotes with each of
\* its double quotes doubled
IsEncoded(cell, val) ==
  IF "null" \in DOMAIN val \/ "undefined" \in DOMAIN val THEN cell = <<>>
  ELSE /\ IsQuoted(cell)
       /\ decoded(cell) = TextOf(val)
       /\ Len(cell) = 2 + Len(TextOf(val))
                        + Cardinality({j \in 1..Len(TextOf(val)) :
                                         TextOf(val)[j] = "\""})

\* record.data[key] for the key of the first field with the role, the empty
\* string when no field has the role
ValueOfRole(t, record, role) ==
  LET fs == SelectSeq(t.fields, LAMBDA f : f.role = role)
  IN  IF Len(fs) > 0 THEN property(record.data, fs[1].key) ELSE Str("")

ContextValue(i, k) ==
  property(resultsTask.records[i].data,
           SelectSeq(resultsTask.fields, LAMBDA f : f.role = "context")[k].key)
ContextCell(i, k) == Exported[i + 1][1 + k]
ContextCells ==
  {<<i, k>> \in (1..Len(resultsTask.records)) \X (1..Len(resultsTask.fields)) :
     k <= Len(SelectSeq(resultsTask.fields, LAMBDA f : f.role = "context"))}

\* C25: the cell of a string context value, also of one with a double quote
\* and a comma in it, decodes under the standard CSV rule to the string.
C25_CellRoundTrip ==
  lastOp.op = "handleExport" =>
    \A c \in ContextCells :
      "string" \in DOMAIN ContextValue(c[1], c[2]) =>
        decoded(ContextCell(c[1], c[2])) = Chars(ContextValue(c[1], c[2]).string)

\* an export with a context value that holds a double quote, a comma and a
\* line feed, read back as it was
C25_Witness ==
  /\ lastOp.op = "handleExport"
  /\ \E c \in ContextCells :
       /\ "string" \in DOMAIN ContextValue(c[1], c[2])
       /\ ContextValue(c[1], c[2]).string = QuoteCommaBreak
       /\ decoded(ContextCell(c[1], c[2])) = <<"a", "\"", ",", "\n", "b">>

\* the Selection cell in the data row of the i-th record
SelectionCellOf(i) == Exported[i + 1][Len(Exported[i + 1]) - 2]

\* C26: in the export of a Comparison task the Selection cell of a record is
\* the saved token left, right or tie, and Pending when none is saved; and
\* the dashboard shows 50 percent for a Comparison task of two records of
\* which one is saved.
C26_SelectionColumn ==
  /\ (lastOp.op = "handleExport" /\ resultsTask.mode = COMPARISON) =>
       \A i \in 1..Len(resultsTask.records) :
         IF Evaluated(i) /\ "comparisonSelection" \in DOMAIN ResultOf(i)
         THEN /\ ResultOf(i).comparisonSelection \in Selections
              /\ SelectionCellOf(i) = <<ResultOf(i).comparisonSelection>>
         ELSE SelectionCellOf(i) = <<"Pending">>
  /\ \A i \in 1..Len(tasks) :
       (/\ view = "dashboard"
        /\ tasks[i].mode = COMPARISON
        /\ Len(tasks[i].records) = 2
        /\ KeyCount(getEvaluations(evaluations, tasks[i].id)) = 1)
       => percent(tasks[i], progressData) = 50

\* the export of the scenario: tie saved for the first of two records, the
\* second not evaluated
C26_Witness ==
  /\ lastOp.op = "handleExport"
  /\ resultsTask.mode = COMPARISON
  /\ Len(resultsTask.records) = 2
  /\ Evaluated(1)
  /\ ~ Evaluated(2)
  /\ "comparisonSelection" \in DOMAIN ResultOf(1)
  /\ ResultOf(1).comparisonSelection = "tie"
  /\ SelectionCellOf(1) = <<"tie">>
  /\ SelectionCellOf(2) = <<"Pending">>

\* the word w occurs in the key k
Occurs(k, w) ==
  \E i \in 1..Len(k) :
    /\ i + Len(w) - 1 <= Len(k)
    /\ \A j \in 1..Len(w) : k[i + j - 1] = w[j]

\* the n-th rule of the table applies to the lower-cased key k under mode m
RuleApplies(n, k, m) ==
  IF n = 1
  THEN \/ Occurs(k, <<"i", "n", "p", "u", "t">>)
       \/ Occurs(k, <<"p", "r", "o", "m", "p", "t">>)
       \/ Occurs(k, <<"q", "u", "e", "r", "y">>)
       \/ Occurs(k, <<"q", "u", "e", "s", "t", "i", "o", "n">>)
       \/ Occurs(k, <<"c", "o", "n", "t", "e", "x", "t">>)
  ELSE IF n = 2
  THEN /\ m = SCORING
       /\ \/ Occurs(k, <<"t", "a", "r", "g", "e", "t">>)
          \/ Occurs(k, <<"r", "e", "s", "p", "o", "n", "s", "e">>)
          \/ Occurs(k, <<"o", "u", "t", "p", "u", "t">>)
          \/ Occurs(k, <<"a", "n", "s", "w", "e", "r">>)
  ELSE IF n = 3
  THEN /\ m = COMPARISON
       /\ \/ k = <<"m", "o", "d", "e", "l", "a">>
          \/ k = <<"o", "u", "t", "p", "u", "t", "a">>
          \/ (Len(k) >= 2 /\ k[Len(k) - 1] = "_" /\ k[Len(k)] = "a")
  ELSE /\ m = COMPARISON
       /\ \/ k = <<"m", "o", "d", "e", "l", "b">>
          \/ k = <<"o", "u", "t", "p", "u", "t", "b">>
          \/ (Len(k) >= 2 /\ k[Len(k) - 1] = "_" /\ k[Len(k)] = "b")

\* the role of the first rule of the table that applies, ignore when none does
RuleTable(key, m) ==
  LET applying == {n \in 1..4 : RuleApplies(n, toLowerCase(key), m)}
  IN  IF applying = {} THEN "ignore"
      ELSE <<"context", "target", "modelA", "modelB">>[Min(applying)]

\* the last step was an import that set the mappings
Imported ==
  /\ lastOp.op = "onload"
  /\ lastOp.read.file.parse = "array"
  /\ Len(lastOp.read.file.json) > 0

\* C27: the role proposed for each key of the first record is that of the
\* first rule of the table that applies to the lower-cased key under the mode
\* of the import, and ignore when none applies; a key with a context word is
\* proposed as context whatever other rule applies to it.
C27_RuleTable ==
  Imported =>
    LET keys == ObjectKeys(lastOp.read.file.json[1])
        m == lastOp.read.mode
    IN  /\ Len(fieldMappings) = Len(keys)
        /\ \A i \in 1..Len(keys) :
             /\ fieldMappings[i].key = keys[i]
             /\ fieldMappings[i].role = RuleTable(keys[i], m)
             /\ RuleApplies(1, toLowerCase(keys[i]), m)
                  => fieldMappings[i].role = "context"

\* a Comparison import that proposes context for query_a, to which the rule
\* of the _a ending applies as well, left-item for outputa and x_a,
\* right-item for ModelB and answer_b and ignore for xmodela
C27_Witness ==
  /\ Imported
  /\ lastOp.read.mode = COMPARISON
  /\ availableKeys
       = <<K_Prompt, K_query_a, K_outputa, K_x_a, K_ModelB, K_answer_b, K_xmodela>>
  /\ [i \in 1..Len(fieldMappings) |-> fieldMappings[i].role]
       = <<"context", "context", "modelA", "modelA", "modelB", "modelB", "ignore">>

\* C28: two imports of the same key list under the same mode propose the same
\* roles and labels, whatever mappings each import found in the wizard.
C28_InferenceDeterminism ==
  \A p \in proposals, q \in proposals :
    (p.keys = q.keys /\ p.mode = q.mode) => p.mappings = q.mappings

\* two imports of the same keys under the same mode, one in a fresh wizard and
\* one over mappings that the operator had changed
C28_Witness ==
  \E p \in proposals, q \in proposals :
    /\ p.keys = q.keys
    /\ p.mode = q.mode
    /\ p.before = <<>>
    /\ q.before # <<>>
    /\ q.before # q.mappings
    /\ p.mappings = q.mappings

\* C29: opening the evaluation session or the results page with a task id
\* that the store does not hold ends on the dashboard, not on a crashed or a
\* stuck page.
C29_NotFoundRedirects ==
  (lastOp.op \in {"loadEffect", "openResults"} /\ lastOp.id \notin StoredIds)
    => view = "dashboard"

\* C30: a stored task is not changed after its creation: a step that changes
\* the list of tasks is a creation, which appends the new task after the
\* tasks stored, unchanged and in their order, or a deletion, which removes
\* the tasks of its id and leaves the others unchanged and in their order;
\* no save of an evaluation changes the list.
C30_TasksImmutable ==
  [][/\ tasks' # tasks => lastOp'.op \in {"handleCreateTask", "handleDelete"}
     /\ lastOp'.op = "handleCreateTask" =>
          /\ Len(tasks') = Len(tasks) + 1
          /\ SubSeq(tasks', 1, Len(tasks)) = tasks
          /\ tasks'[Len(tasks')].id = lastOp'.id
     /\ lastOp'.op = "handleDelete" =>
          tasks' = SelectSeq(tasks, LAMBDA t : t.id # lastOp'.id)
     /\ lastOp'.op \in Saving => tasks' = tasks]_vars

\* a second task was created after the first one was evaluated
C30_Witness ==
  /\ lastOp.op = "handleCreateTask"
  /\ Len(tasks) = 2
  /\ tasks[2].id = lastOp.id
  /\ tasks[1].id \in DOMAIN evaluations
  /\ KeyCount(evaluations[tasks[1].id]) > 0

\* C31: a creation attempt in Scoring mode with a title that is not blank and
\* no field mapped to target sets no error and writes the Task: the store
\* holds one more task, the new one, and the dashboard is shown.
C31_ScoringWithoutTarget ==
  [][(/\ lastOp'.op = "createTask"
      /\ mode = SCORING
      /\ ~ IsBlank(title)
      /\ ~ HasRole("target")) =>
       /\ lastOp'.id # "none"
       /\ error' = Null
       /\ view' = "dashboard"
       /\ Len(tasks') = Len(tasks) + 1
       /\ tasks'[Len(tasks')].id = lastOp'.id
       /\ tasks'[Len(tasks')].mode = SCORING
       /\ tasks'[Len(tasks')].records = rawRecords]_vars

\* a Scoring task without a target field was written
C31_Witness ==
  /\ lastOp.op = "createTask"
  /\ lastOp.id # "none"
  /\ view = "dashboard"
  /\ Len(tasks) = 1
  /\ tasks[1].id = lastOp.id
  /\ tasks[1].mode = SCORING
  /\ Len(tasks[1].fields) > 0
  /\ \A i \in 1..Len(tasks[1].fields) : tasks[1].fields[i].role = "context"

\* C32: every stored Scoring task has at least one Dimension: the dimension
\* list of the wizard is never empty, whatever addDimension and
\* removeDimension did, and removeDimension on a single remaining dimension
\* changes nothing.
C32_DimensionsNeverEmpty ==
  /\ [](/\ Len(dimensions) >= 1
        /\ \A i \in 1..Len(tasks) :
             tasks[i].mode = SCORING =>
               /\ "dimensions" \in DOMAIN tasks[i]
               /\ Len(tasks[i].dimensions) >= 1)
  /\ [][(lastOp'.op = "removeDimension" /\ Len(dimensions) = 1) =>
          UNCHANGED <<dimensions, tasks, tasksJson, evaluations,
                      evaluationsJson, view, step, error, title, mode,
                      rawRecords, availableKeys, fieldMappings>>]_vars

\* removeDimension on the one dimension the wizard starts with: the only edit
\* before it was the file upload that step 3 needs, so nothing was added
C32_Witness ==
  /\ lastOp.op = "removeDimension"
  /\ edits = 2
  /\ step = 3
  /\ view = "create"
  /\ Len(dimensions) = 1

\* C33: in every stored Task, dimensions is present exactly when the mode is
\* Scoring, in whatever order the wizard changed the mode and edited the
\* dimensions.
C33_DimensionsIffScoring ==
  \A i \in 1..Len(tasks) :
    ("dimensions" \in DOMAIN tasks[i]) <=> (tasks[i].mode = SCORING)

\* the wizard wrote a Comparison task, with no dimensions in it, after the
\* upload and one more edit
C33_Witness ==
  /\ lastOp.op = "createTask"
  /\ lastOp.id # "none"
  /\ edits = 2
  /\ Len(tasks) = 1
  /\ tasks[1].id = lastOp.id
  /\ tasks[1].mode = COMPARISON
  /\ "dimensions" \notin DOMAIN tasks[1]

\* the arrays that the files of the model hold
ImportedArrays == {file.json : file \in {f \in Files : f.parse = "array"}}

\* C34: the fields of every stored Task hold no mapping of role ignore, and
\* hold the other mappings of the wizard in their order, with unique keys;
\* the data of each record has every property of the imported object, with
\* its value, those of ignored fields included.
C34_FieldsAndData ==
  /\ [](\A t \in 1..Len(tasks) :
          /\ \A i \in 1..Len(tasks[t].fields) : tasks[t].fields[i].role # "ignore"
          /\ \A i, j \in 1..Len(tasks[t].fields) :
               tasks[t].fields[i].key = tasks[t].fields[j].key => i = j
          /\ \E json \in ImportedArrays :
               /\ Len(tasks[t].records) = Len(json)
               /\ \A r \in 1..Len(json) :
                    /\ Len(tasks[t].records[r].data) = Len(json[r])
                    /\ \A k \in 1..Len(json[r]) :
                         tasks[t].records[r].data[k] = json[r][k])
  /\ [][(lastOp'.op = "createTask" /\ lastOp'.id # "none") =>
          LET fields == tasks'[Len(tasks')].fields
          IN  /\ \A a \in 1..Len(fieldMappings) :
                   fieldMappings[a].role # "ignore" =>
                     \E i \in 1..Len(fields) : fields[i] = fieldMappings[a]
              /\ \A i, j \in 1..Len(fields) :
                   i < j => \E a, b \in 1..Len(fieldMappings) :
                              /\ a < b
                              /\ fieldMappings[a] = fields[i]
                              /\ fieldMappings[b] = fields[j]
              /\ \A i \in 1..Len(fields) :
                   \E a \in 1..Len(fieldMappings) : fieldMappings[a] = fields[i]]_vars

\* the wizard stored a task of two fields whose records keep the id property,
\* which no field maps
C34_Witness ==
  /\ lastOp.op = "createTask"
  /\ lastOp.id # "none"
  /\ Len(tasks) = 1
  /\ Len(tasks[1].fields) = 2
  /\ \A i \in 1..2 : tasks[1].fields[i].key # K_id
  /\ Len(tasks[1].records) = 2
  /\ tasks[1].records[1].data = ItemA
  /\ HasMember(tasks[1].records[1].data, K_id)

\* C35: every Task that the wizard writes has at least one record, however
\* the step buttons interleave with the completion of a file read: Create
\* never runs while the imported record list is empty.
C35_CreateHasRecords ==
  [][(lastOp'.op = "createTask" /\ lastOp'.id # "none") =>
       /\ Len(rawRecords) > 0
       /\ Len(tasks'[Len(tasks')].records) > 0]_vars

\* C36: whenever the session holds a task, currentIndex is an index of the
\* records of that task, 0 <= currentIndex <= records.length - 1, so the
\* current record exists: after next, prev and save, and after a task of
\* another length was loaded into the same session.
C36_IndexInRange ==
  task # Null =>
    /\ 0 <= currentIndex
    /\ currentIndex <= Len(task.records) - 1

\* the handlers that change the draft
Mutations == {"updateScore", "updateComparison", "updateComment"}

\* what an evaluator enters into a result
Entered == {"scores", "comparisonSelection", "comment"}

\* two results hold the same scores, selection and comment
SameEntries(a, b) ==
  \A f \in Entered :
    /\ (f \in DOMAIN a) <=> (f \in DOMAIN b)
    /\ f \in DOMAIN a => a[f] = b[f]

\* a result holds what a fresh draft of a task of mode m holds
FreshEntries(a, m) ==
  /\ a.comment = ""
  /\ "comparisonSelection" \notin DOMAIN a
  /\ IF m = SCORING
     THEN "scores" \in DOMAIN a /\ DOMAIN a.scores = {}
     ELSE "scores" \notin DOMAIN a

\* C37: whenever isSaved is true the session holds no unsaved edit: the
\* scores, the selection and the comment of the draft are those of the
\* savedEvaluations entry of the current record when there is one, and the
\* fresh defaults otherwise; isSaved is false exactly from a mutation until
\* the next save or draft load.
C37_SavedMeansNoEdit ==
  /\ []((view = "evaluate" /\ isSaved) =>
          IF currentRecord.id \in DOMAIN savedEvaluations
          THEN SameEntries(currentResult, savedEvaluations[currentRecord.id])
          ELSE FreshEntries(currentResult, task.mode))
  /\ [][/\ lastOp'.op \in Mutations => ~ isSaved'
        /\ (isSaved /\ ~ isSaved') => lastOp'.op \in Mutations
        /\ (~ isSaved /\ isSaved') => lastOp'.op \in Saving \cup {"loadEffect", "goDashboard"}
        /\ (view' = "evaluate" /\ lastOp'.op \in Saving \cup {"loadEffect"})
             => isSaved']_vars

\* a comment was entered and saved: the session is marked saved and the draft
\* holds the comment of the entry
C37_Witness ==
  /\ view = "evaluate"
  /\ isSaved
  /\ lastOp.op = "handleSave"
  /\ currentResult.comment = "c"
  /\ currentRecord.id \in DOMAIN savedEvaluations
  /\ savedEvaluations[currentRecord.id].comment = "c"

\* C38: after task creations, session saves and moves, and task deletions
\* made through the application, the evaluations have no orphan: every task
\* id that keys an evaluation map is the id of a stored task, and every
\* record id that keys an entry of a task's map is the id of a record of that
\* task, the recordId of the entry being its key.
C38_NoOrphans ==
  \A id \in DOMAIN evaluations :
    /\ \E t \in 1..Len(tasks) : tasks[t].id = id
    /\ \A t \in 1..Len(tasks) :
         tasks[t].id = id =>
           \A rid \in DOMAIN evaluations[id] :
             /\ \E r \in 1..Len(tasks[t].records) : tasks[t].records[r].id = rid
             /\ evaluations[id][rid].recordId = rid

\* a task with saved results was deleted, and the task that is left has
\* saved results
C38_Witness ==
  /\ lastOp.op = "handleDelete"
  /\ lastOp.removed > 0
  /\ Len(tasks) = 1
  /\ DOMAIN evaluations = {tasks[1].id}
  /\ DOMAIN evaluations[tasks[1].id] # {}

\* C39: every data row of an export splits, under the CSV rule, into as many
\* fields as the header row, for every record id, field label, dimension
\* name and field value that the import and the wizard accept, those with a
\* comma, a double quote or a line break in them included.
C39_RowsMatchHeader ==
  lastOp.op = "handleExport" =>
    \A r \in 2..Len(Exported) : Len(Exported[r]) = Len(Exported[1])

====
